---- MODULE Spec2Model ----
(***************************************************************************)
(* Model of proxmoxtf/resource/file.go: the Terraform resource that        *)
(* manages one file of a Proxmox VE datastore (create, read, delete,       *)
(* update, import).  Strings the code splits, formats or compares by       *)
(* character are sequences of one-character strings.                       *)
(***************************************************************************)
EXTENDS Integers, Sequences, FiniteSets, TLC

(***************************************************************************)
(* Bounds of the model.                                                    *)
(***************************************************************************)
\* longest string handed to fileParseVolumeID
MaxStrLen == 5
\* longest datastore id / content type / file name of a formatted identity
MaxPart == 2

(***************************************************************************)
(* Strings.                                                                *)
(***************************************************************************)
Chars == {"a", "b", "x", ":", "/"}

PartChars == {"a", ":", "/"}

StrsOver(cs, n) == UNION {[1..k -> cs] : k \in 0..n}

\* strings.Index for a one-character separator: 0 when it does not occur
IndexOf(s, c) ==
  IF \E i \in 1..Len(s) : s[i] = c
    THEN CHOOSE i \in 1..Len(s) : s[i] = c /\ \A j \in 1..(i - 1) : s[j] # c
    ELSE 0

\* strings.SplitN(s, sep, 2)
SplitN2(s, sep) ==
  LET i == IndexOf(s, sep)
  IN  IF i = 0 THEN <<s>>
      ELSE <<SubSeq(s, 1, i - 1), SubSeq(s, i + 1, Len(s))>>

Contains(s, c) == \E i \in 1..Len(s) : s[i] = c

(***************************************************************************)
(* fileVolumeID, its String method and fileParseVolumeID.                  *)
(***************************************************************************)
ZeroVolumeID == [datastoreID |-> <<>>, contentType |-> <<>>, fileName |-> <<>>]

\* fmt.Sprintf("%s:%s/%s", ...)
String(v) == v.datastoreID \o <<":">> \o v.contentType \o <<"/">> \o v.fileName

\* faulty variant: the file name is taken from the wrong side of the second split
fileParseVolumeID_wrongPart(id) ==
  LET parts == SplitN2(id, ":")
  IN  IF Len(parts) # 2 \/ parts[1] = <<>> \/ parts[2] = <<>>
        THEN [v |-> ZeroVolumeID, err |-> TRUE]
        ELSE LET rest == SplitN2(parts[2], "/")
             IN  IF Len(rest) # 2 \/ rest[1] = <<>> \/ rest[2] = <<>>
                   THEN [v |-> ZeroVolumeID, err |-> TRUE]
                   ELSE [v |-> [datastoreID |-> parts[1], contentType |-> rest[1],
                                fileName |-> rest[1]],
                         err |-> FALSE]

\* faulty variant: the second split does not check that the file name is non-empty
fileParseVolumeID_emptyName(id) ==
  LET parts == SplitN2(id, ":")
  IN  IF Len(parts) # 2 \/ parts[1] = <<>> \/ parts[2] = <<>>
        THEN [v |-> ZeroVolumeID, err |-> TRUE]
        ELSE LET rest == SplitN2(parts[2], "/")
             IN  IF Len(rest) # 2 \/ rest[1] = <<>>
                   THEN [v |-> ZeroVolumeID, err |-> TRUE]
                   ELSE [v |-> [datastoreID |-> parts[1], contentType |-> rest[1],
                                fileName |-> rest[2]],
                         err |-> FALSE]

fileParseVolumeID(id) ==
  LET parts == SplitN2(id, ":")
  IN  IF Len(parts) # 2 \/ parts[1] = <<>> \/ parts[2] = <<>>
        THEN [v |-> ZeroVolumeID, err |-> TRUE]
        ELSE LET rest == SplitN2(parts[2], "/")
             IN  IF Len(rest) # 2 \/ rest[1] = <<>> \/ rest[2] = <<>>
                   THEN [v |-> ZeroVolumeID, err |-> TRUE]
                   ELSE [v |-> [datastoreID |-> parts[1], contentType |-> rest[1],
                                fileName |-> rest[2]],
                         err |-> FALSE]

\* faulty variant: the node is not checked to be non-empty
fileParseImportID_emptyNode(id) ==
  LET parts == SplitN2(id, "/")
  IN  IF Len(parts) # 2 \/ parts[2] = <<>>
        THEN [node |-> <<>>, v |-> ZeroVolumeID, err |-> TRUE]
      ELSE LET volID == fileParseVolumeID(parts[2])
           IN  IF volID.err THEN [node |-> <<>>, v |-> ZeroVolumeID, err |-> TRUE]
               ELSE [node |-> parts[1], v |-> volID.v, err |-> FALSE]

\* fileParseImportID: node/datastore_id:content_type/file_name
fileParseImportID(id) ==
  LET parts == SplitN2(id, "/")
  IN  IF Len(parts) # 2 \/ parts[1] = <<>> \/ parts[2] = <<>>
        THEN [node |-> <<>>, v |-> ZeroVolumeID, err |-> TRUE]
      ELSE LET volID == fileParseVolumeID(parts[2])
           IN  IF volID.err THEN [node |-> <<>>, v |-> ZeroVolumeID, err |-> TRUE]
               ELSE [node |-> parts[1], v |-> volID.v, err |-> FALSE]

\* the Importer's StateContext (lines 236-262) on the resource data d whose
\* id is the import id: on an error d is not returned
ImportState(d, parsed) ==
  IF parsed.err THEN [d |-> d, err |-> TRUE]
  ELSE [d |-> [d EXCEPT !.id = String(parsed.v),
                        !.node_name = parsed.node,
                        !.datastore_id = parsed.v.datastoreID,
                        !.content_type = parsed.v.contentType],
        err |-> FALSE]

(***************************************************************************)
(* String helpers of the resource: prefixes, suffixes, case, paths.        *)
(***************************************************************************)
HasPrefix(s, p) == Len(s) >= Len(p) /\ SubSeq(s, 1, Len(p)) = p

HasSuffix(s, p) == Len(s) >= Len(p) /\ SubSeq(s, Len(s) - Len(p) + 1, Len(s)) = p

\* last index of c in s, 0 when it does not occur
LastIndexOf(s, c) ==
  IF \E i \in 1..Len(s) : s[i] = c
    THEN CHOOSE i \in 1..Len(s) : s[i] = c /\ \A j \in (i + 1)..Len(s) : s[j] # c
    ELSE 0

UpperLetters == <<"A", "B", "C", "D", "E", "F", "I", "S", "O">>

LowerLetters == <<"a", "b", "c", "d", "e", "f", "i", "s", "o">>

LowerChar(c) ==
  IF \E i \in 1..Len(UpperLetters) : UpperLetters[i] = c
    THEN LowerLetters[CHOOSE i \in 1..Len(UpperLetters) : UpperLetters[i] = c]
    ELSE c

\* strings.ToLower
ToLower(s) == [i \in 1..Len(s) |-> LowerChar(s[i])]

\* strings.TrimLeft(s, "."): drops every leading '.'
TrimLeftDots(s) ==
  IF \A i \in 1..Len(s) : s[i] = "." THEN <<>>
  ELSE LET k == CHOOSE i \in 1..Len(s) : s[i] # "." /\ \A j \in 1..(i - 1) : s[j] = "."
       IN  SubSeq(s, k, Len(s))

\* drops every trailing '/'
TrimRightSlashes(s) ==
  IF \A i \in 1..Len(s) : s[i] = "/" THEN <<>>
  ELSE LET k == CHOOSE i \in 1..Len(s) : s[i] # "/" /\ \A j \in (i + 1)..Len(s) : s[j] = "/"
       IN  SubSeq(s, 1, k)

\* filepath.Base: "." for the empty path, "/" for a path of slashes only,
\* else the last element with trailing slashes removed
Base(path) ==
  IF path = <<>> THEN <<".">>
  ELSE LET t == TrimRightSlashes(path)
       IN  IF t = <<>> THEN <<"/">>
           ELSE SubSeq(t, LastIndexOf(t, "/") + 1, Len(t))

\* filepath.Ext: the suffix beginning at the final '.' of the final element
Ext(path) ==
  LET sl == LastIndexOf(path, "/")
      el == SubSeq(path, sl + 1, Len(path))
      dt == LastIndexOf(el, ".")
  IN  IF dt = 0 THEN <<>> ELSE SubSeq(el, dt, Len(el))

sHTTP == <<"h", "t", "t", "p", ":", "/", "/">>

sHTTPS == <<"h", "t", "t", "p", "s", ":", "/", "/">>

\* the Path of url.ParseRequestURI for scheme://host/path (no query, no fragment)
URLPath(u) ==
  LET rest == IF HasPrefix(u, sHTTPS) THEN SubSeq(u, Len(sHTTPS) + 1, Len(u))
              ELSE SubSeq(u, Len(sHTTP) + 1, Len(u))
      i == IndexOf(rest, "/")
  IN  IF i = 0 THEN <<>> ELSE SubSeq(rest, i, Len(rest))

(***************************************************************************)
(* Content types and other literals of the resource.                       *)
(***************************************************************************)
ctISO == <<"i", "s", "o">>

ctVZTMPL == <<"v", "z", "t", "m", "p", "l">>

ctIMPORT == <<"i", "m", "p", "o", "r", "t">>

ctSNIPPETS == <<"s", "n", "i", "p", "p", "e", "t", "s">>

ctBACKUP == <<"b", "a", "c", "k", "u", "p">>

ctIMAGES == <<"i", "m", "a", "g", "e", "s">>

ctROOTDIR == <<"r", "o", "o", "t", "d", "i", "r">>

ctDUMP == <<"d", "u", "m", "p">>

\* the content types validators.ContentType() accepts
KnownContentTypes == {ctBACKUP, ctIMAGES, ctIMPORT, ctISO, ctROOTDIR, ctSNIPPETS, ctVZTMPL}

(***************************************************************************)
(* Diagnostics: diag.Diagnostic reduced to severity, kind of message and   *)
(* the two values the message names.                                       *)
(***************************************************************************)
Err(kind, a, b) == [sev |-> "error", kind |-> kind, a |-> a, b |-> b]

Warn(kind, a, b) == [sev |-> "warning", kind |-> kind, a |-> a, b |-> b]

\* diags.HasError()
HasError(diags) == \E i \in 1..Len(diags) : diags[i].sev = "error"

(***************************************************************************)
(* Reading the source descriptor out of the resource data.                 *)
(***************************************************************************)
fileIsURL(d) ==
  IF Len(d.source_file) > 0
    THEN \/ HasPrefix(d.source_file[1].path, sHTTP)
         \/ HasPrefix(d.source_file[1].path, sHTTPS)
    ELSE FALSE

\* faulty variant: an empty final segment of the URL path is returned as the name
fileGetSourceFileName_noEmptyCheck(d) ==
  IF Len(d.source_file) = 0 /\ Len(d.source_raw) = 0
    THEN [name |-> <<>>, err |-> <<Err("MissingArgument", <<>>, <<>>)>>]
  ELSE LET override == IF Len(d.source_file) > 0 THEN d.source_file[1].file_name
                       ELSE d.source_raw[1].file_name
           path == IF Len(d.source_file) > 0 THEN d.source_file[1].path ELSE <<>>
       IN  IF override # <<>> THEN [name |-> override, err |-> <<>>]
           ELSE IF fileIsURL(d)
             THEN LET up == URLPath(path)
                  IN  [name |-> SubSeq(up, LastIndexOf(up, "/") + 1, Len(up)), err |-> <<>>]
             ELSE [name |-> Base(path), err |-> <<>>]

fileGetSourceFileName(d) ==
  IF Len(d.source_file) = 0 /\ Len(d.source_raw) = 0
    THEN [name |-> <<>>, err |-> <<Err("MissingArgument", <<>>, <<>>)>>]
  ELSE LET override == IF Len(d.source_file) > 0 THEN d.source_file[1].file_name
                       ELSE d.source_raw[1].file_name
           path == IF Len(d.source_file) > 0 THEN d.source_file[1].path ELSE <<>>
       IN  IF override # <<>> THEN [name |-> override, err |-> <<>>]
           ELSE IF fileIsURL(d)
             THEN LET up == URLPath(path)
                      seg == SubSeq(up, LastIndexOf(up, "/") + 1, Len(up))
                  IN  IF seg = <<>>
                        THEN [name |-> <<>>, err |-> <<Err("NoFileNameInURL", path, <<>>)>>]
                        ELSE [name |-> seg, err |-> <<>>]
             ELSE [name |-> Base(path), err |-> <<>>]

sufTARGZ == <<".", "t", "a", "r", ".", "g", "z">>

sufTARXZ == <<".", "t", "a", "r", ".", "x", "z">>

sufQCOW2 == <<".", "q", "c", "o", "w", "2">>

sufRAW == <<".", "r", "a", "w">>

sufVMDK == <<".", "v", "m", "d", "k">>

\* faulty variant: the import rule does not ask whether the version supports it
InferContentType_anyVersion(sourceFilePath, supportsImport) ==
  IF HasSuffix(sourceFilePath, sufTARGZ) \/ HasSuffix(sourceFilePath, sufTARXZ)
    THEN ctVZTMPL
  ELSE IF \/ HasSuffix(sourceFilePath, sufQCOW2)
          \/ HasSuffix(sourceFilePath, sufRAW)
          \/ HasSuffix(sourceFilePath, sufVMDK)
    THEN ctIMPORT
  ELSE LET ext == TrimLeftDots(ToLower(Ext(sourceFilePath)))
       IN  IF ext \in {<<"i", "m", "g">>, <<"i", "s", "o">>} THEN ctISO
           ELSE IF ext \in {<<"y", "a", "m", "l">>, <<"y", "m", "l">>} THEN ctSNIPPETS
           ELSE <<>>

\* the content type inferred from the source path, <<>> when no rule matches
InferContentType(sourceFilePath, supportsImport) ==
  IF HasSuffix(sourceFilePath, sufTARGZ) \/ HasSuffix(sourceFilePath, sufTARXZ)
    THEN ctVZTMPL
  ELSE IF /\ supportsImport
          /\ \/ HasSuffix(sourceFilePath, sufQCOW2)
             \/ HasSuffix(sourceFilePath, sufRAW)
             \/ HasSuffix(sourceFilePath, sufVMDK)
    THEN ctIMPORT
  ELSE LET ext == TrimLeftDots(ToLower(Ext(sourceFilePath)))
       IN  IF ext \in {<<"i", "m", "g">>, <<"i", "s", "o">>} THEN ctISO
           ELSE IF ext \in {<<"y", "a", "m", "l">>, <<"y", "m", "l">>} THEN ctSNIPPETS
           ELSE <<>>

\* validators.ContentType(): one error diagnostic for a value outside the set
ContentTypeValidator(ct) ==
  IF ct \in KnownContentTypes THEN <<>> ELSE <<Err("UnknownContentType", ct, <<>>)>>

\* faulty variant: the content type is returned without being validated
fileGetContentType_unvalidated(d, supportsImport) ==
  IF Len(d.source_file) = 0 /\ Len(d.source_raw) = 0
    THEN [nil |-> TRUE, ct |-> <<>>, diags |-> <<Err("MissingArgument", <<>>, <<>>)>>]
  ELSE LET sourceFilePath == IF Len(d.source_file) > 0 THEN d.source_file[1].path
                             ELSE d.source_raw[1].file_name
           ct == IF d.content_type = <<>>
                   THEN InferContentType(sourceFilePath, supportsImport)
                   ELSE d.content_type
       IN  IF ct = <<>>
             THEN [nil |-> TRUE, ct |-> <<>>,
                   diags |-> <<Err("UndeterminedContentType", sourceFilePath, <<>>)>>]
             ELSE [nil |-> FALSE, ct |-> ct, diags |-> <<>>]

\* fileGetContentType: nil is TRUE when the returned *string is nil.
\* supportsImport is ver.SupportImportContentType() of the version the
\* backend reported (of the minimum version when the query failed).
fileGetContentType(d, supportsImport) ==
  IF Len(d.source_file) = 0 /\ Len(d.source_raw) = 0
    THEN [nil |-> TRUE, ct |-> <<>>, diags |-> <<Err("MissingArgument", <<>>, <<>>)>>]
  ELSE LET sourceFilePath == IF Len(d.source_file) > 0 THEN d.source_file[1].path
                             ELSE d.source_raw[1].file_name
           ct == IF d.content_type = <<>>
                   THEN InferContentType(sourceFilePath, supportsImport)
                   ELSE d.content_type
       IN  IF ct = <<>>
             THEN [nil |-> TRUE, ct |-> <<>>,
                   diags |-> <<Err("UndeterminedContentType", sourceFilePath, <<>>)>>]
             ELSE [nil |-> FALSE, ct |-> ct, diags |-> ContentTypeValidator(ct)]

(***************************************************************************)
(* Metadata of the source: readFile (stat of a local path) and readURL     *)
(* (HEAD request).  A time is a number of seconds; its RFC 3339 text and   *)
(* the %x text of a number are injective renderings.                       *)
(***************************************************************************)
HexDigits == <<"0", "1", "2", "3", "4", "5", "6", "7", "8", "9", "a", "b", "c", "d", "e", "f">>

\* fmt.Sprintf("%x", n)
RECURSIVE Hex(_)
Hex(n) == IF n < 16 THEN <<HexDigits[n + 1]>> ELSE Hex(n \div 16) \o <<HexDigits[(n % 16) + 1]>>

\* t.UTC().Format(time.RFC3339)
FormatRFC3339(t) == <<"T">> \o Hex(t)

NoAttrs == [md |-> <<>>, size |-> 0, tag |-> <<>>, err |-> FALSE]

\* what os.Open and f.Stat find at the path
FileObservations ==
  {[kind |-> k, mtime |-> 0, size |-> 0] : k \in {"notexist", "openerr", "staterr"}}
    \cup {[kind |-> "file", mtime |-> t, size |-> 10] : t \in {1, 2}}
    \cup {[kind |-> "file", mtime |-> 2, size |-> 0]}

readFile(obs) ==
  IF obs.kind = "notexist" THEN NoAttrs
  ELSE IF obs.kind \in {"openerr", "staterr"} THEN [NoAttrs EXCEPT !.err = TRUE]
  ELSE [md |-> FormatRFC3339(obs.mtime),
        size |-> obs.size,
        tag |-> Hex(obs.mtime) \o <<"-">> \o Hex(obs.size),
        err |-> FALSE]

\* a response to the HEAD request: the Last-Modified header (<<>> when
\* absent, else the layout it is written in, "G" RFC1123 or "Z" RFC1123Z or
\* neither, and the time), the Content-Length and the ETag header
Response(lm, cl, et) ==
  [kind |-> "resp", lastModified |-> lm, contentLength |-> cl, etag |-> et]

URLObservations ==
  {[kind |-> "reqerr", lastModified |-> <<>>, contentLength |-> 0, etag |-> <<>>],
   Response(<<>>, 0, <<>>),
   Response(<<"G", 1>>, 10, <<"\"", "g", "\"">>),
   Response(<<"Z", 2>>, 10, <<"\"", "g", "\"">>),
   Response(<<"G", 1>>, 10, <<"g">>),
   Response(<<"?", 1>>, 10, <<"\"", "g", "\"">>)}

\* strings.Split(httpTag, "\"")[1] when the split has more than one part
ETagValue(httpTag) ==
  LET i == IndexOf(httpTag, "\"")
      rest == SubSeq(httpTag, i + 1, Len(httpTag))
      j == IndexOf(rest, "\"")
  IN  IF httpTag = <<>> \/ i = 0 THEN <<>>
      ELSE IF j = 0 THEN rest
      ELSE SubSeq(rest, 1, j - 1)

readURL(obs) ==
  IF obs.kind = "reqerr" THEN [NoAttrs EXCEPT !.err = TRUE]
  ELSE IF obs.lastModified # <<>> /\ obs.lastModified[1] \notin {"G", "Z"}
    THEN [md |-> <<>>, size |-> obs.contentLength, tag |-> <<>>, err |-> TRUE]
  ELSE [md |-> IF obs.lastModified = <<>> THEN <<>>
               ELSE FormatRFC3339(obs.lastModified[2]),
        size |-> obs.contentLength,
        tag |-> ETagValue(obs.etag),
        err |-> FALSE]

(***************************************************************************)
(* The backend listing: one entry per stored file, in the order the        *)
(* backend returns them.                                                   *)
(***************************************************************************)
\* the ContentType field the backend reports for a volume
EntryContentType(volid) ==
  LET p == fileParseVolumeID(volid)
  IN  IF p.err THEN ctIMAGES ELSE p.v.contentType

ListEntry(volid) == [VolumeID |-> volid, ContentType |-> EntryContentType(volid)]

(***************************************************************************)
(* fileRead.  listing is the result of ListDatastoreFiles (err, list), obs *)
(* what the stat or the HEAD request finds, clientErr the failure of       *)
(* config.GetClient.  The result carries the new resource data, the        *)
(* diagnostics returned and the calls made.                                *)
(***************************************************************************)
\* lines 811-829: the recorded values are read back after the fresh ones
\* have been stored
\* faulty variant: the drift flag no longer requires a complete baseline
DriftChanged_noBaseline(last, fresh) ==
  last.md # fresh.md \/ last.size # fresh.size \/ last.tag # fresh.tag

DriftChanged(last, fresh) ==
  IF last.md # <<>> /\ last.size # 0 /\ last.tag # <<>>
    THEN last.md # fresh.md \/ last.size # fresh.size \/ last.tag # fresh.tag
    ELSE FALSE

Recorded(d) ==
  [md |-> d.file_modification_date, size |-> d.file_size, tag |-> d.file_tag,
   err |-> FALSE]

\* faulty variant: the observed attributes are stored even when empty
StoreAttrs_always(d, fresh) ==
  [d EXCEPT !.file_modification_date = fresh.md,
            !.file_size = fresh.size,
            !.file_tag = fresh.tag]

\* lines 811-819: d.Set of the three attributes, only when a value was observed
StoreAttrs(d, fresh) ==
  IF fresh.md # <<>> \/ fresh.size # 0 \/ fresh.tag # <<>>
    THEN [d EXCEPT !.file_modification_date = fresh.md,
                   !.file_size = fresh.size,
                   !.file_tag = fresh.tag]
    ELSE d

\* lines 808-838: the attributes observed at the source are stored and the
\* drift flag is computed; diags are the diagnostics collected so far
ReadDrift(d, diags, fresh, call) ==
  [d |-> [StoreAttrs(d, fresh) EXCEPT
            !.source_file[1].changed = DriftChanged(Recorded(StoreAttrs(d, fresh)), fresh)],
   diags |-> IF fresh.err \/ HasError(diags)
               THEN diags \o (IF fresh.err
                                THEN <<Err("ReadAttrs", d.source_file[1].path, <<>>)>>
                                ELSE <<>>)
               ELSE <<>>,
   calls |-> <<call>>]

\* faulty variant: a resource without a source_file block is looked up too
ReadMatch_rawChecked(d, entry, volID, obs) ==
  IF Len(d.source_file) = 0
    THEN [d |-> StoreAttrs([d EXCEPT !.file_name = volID.v.fileName,
                                     !.content_type = entry.ContentType],
                           readFile(obs)),
          diags |-> <<>>, calls |-> <<"Stat">>]
    ELSE ReadDrift([d EXCEPT !.file_name = volID.v.fileName,
                             !.content_type = entry.ContentType],
                   IF volID.err THEN <<Err("MalformedID", entry.VolumeID, <<>>)>> ELSE <<>>,
                   IF fileIsURL(d) THEN readURL(obs) ELSE readFile(obs),
                   IF fileIsURL(d) THEN "Head" ELSE "Stat")

\* lines 789-839: the body of the loop for the entry whose VolumeID is d.Id()
ReadMatch(d, entry, volID, obs) ==
  IF Len(d.source_file) = 0
    THEN [d |-> [d EXCEPT !.file_name = volID.v.fileName,
                          !.content_type = entry.ContentType],
          diags |-> <<>>, calls |-> <<>>]
    ELSE ReadDrift([d EXCEPT !.file_name = volID.v.fileName,
                             !.content_type = entry.ContentType],
                   IF volID.err THEN <<Err("MalformedID", entry.VolumeID, <<>>)>> ELSE <<>>,
                   IF fileIsURL(d) THEN readURL(obs) ELSE readFile(obs),
                   IF fileIsURL(d) THEN "Head" ELSE "Stat")

\* the entry of the listing whose VolumeID is id
EntryOf(list, id) == list[CHOOSE k \in 1..Len(list) : list[k].VolumeID = id]

WithList(r) == [r EXCEPT !.calls = <<"List">> \o @]

\* faulty variant: a resource missing from the listing keeps its identity
fileRead_keepsID(d, clientErr, listing, obs) ==
  IF clientErr THEN [d |-> d, diags |-> <<Err("GetClient", <<>>, <<>>)>>, calls |-> <<>>]
  ELSE IF listing.err
    THEN [d |-> d, diags |-> <<Err("ListFiles", <<>>, <<>>)>>, calls |-> <<"List">>]
  ELSE IF \E i \in 1..Len(listing.list) : listing.list[i].VolumeID = d.id
    THEN WithList(ReadMatch(d, EntryOf(listing.list, d.id), fileParseVolumeID(d.id), obs))
  ELSE [d |-> d, diags |-> <<>>, calls |-> <<"List">>]

fileRead(d, clientErr, listing, obs) ==
  IF clientErr THEN [d |-> d, diags |-> <<Err("GetClient", <<>>, <<>>)>>, calls |-> <<>>]
  ELSE IF listing.err
    THEN [d |-> d, diags |-> <<Err("ListFiles", <<>>, <<>>)>>, calls |-> <<"List">>]
  ELSE IF \E i \in 1..Len(listing.list) : listing.list[i].VolumeID = d.id
    THEN WithList(ReadMatch(d, EntryOf(listing.list, d.id), fileParseVolumeID(d.id), obs))
  ELSE [d |-> [d EXCEPT !.id = <<>>], diags |-> <<>>, calls |-> <<"List">>]

(***************************************************************************)
(* fileDelete.  backend is the answer of DeleteDatastoreFile: "ok",        *)
(* "notexist" (api.ErrResourceDoesNotExist) or "error" (any other error).  *)
(***************************************************************************)
\* faulty variant: the identity is cleared before the error is returned
fileDelete_clearsFirst(d, clientErr, backend) ==
  IF clientErr THEN [d |-> d, diags |-> <<Err("GetClient", <<>>, <<>>)>>, calls |-> <<>>]
  ELSE IF backend = "error"
    THEN [d |-> [d EXCEPT !.id = <<>>], diags |-> <<Err("DeleteFile", d.id, <<>>)>>,
          calls |-> <<"Delete">>]
  ELSE [d |-> [d EXCEPT !.id = <<>>], diags |-> <<>>, calls |-> <<"Delete">>]

\* faulty variant: every error of the backend call is returned
fileDelete_strict(d, clientErr, backend) ==
  IF clientErr THEN [d |-> d, diags |-> <<Err("GetClient", <<>>, <<>>)>>, calls |-> <<>>]
  ELSE IF backend # "ok"
    THEN [d |-> d, diags |-> <<Err("DeleteFile", d.id, <<>>)>>, calls |-> <<"Delete">>]
  ELSE [d |-> [d EXCEPT !.id = <<>>], diags |-> <<>>, calls |-> <<"Delete">>]

fileDelete(d, clientErr, backend) ==
  IF clientErr THEN [d |-> d, diags |-> <<Err("GetClient", <<>>, <<>>)>>, calls |-> <<>>]
  ELSE IF backend = "error"
    THEN [d |-> d, diags |-> <<Err("DeleteFile", d.id, <<>>)>>, calls |-> <<"Delete">>]
  ELSE [d |-> [d EXCEPT !.id = <<>>], diags |-> <<>>, calls |-> <<"Delete">>]

\* faulty variant: the update lists the datastore again
fileUpdate_relists(d) == [d |-> d, diags |-> <<>>, calls |-> <<"List">>]

\* fileUpdate: a pass-through
fileUpdate(d) == [d |-> d, diags |-> <<>>, calls |-> <<>>]

(***************************************************************************)
(* fileCreate.  env is what the environment answers during one call:       *)
(*   fail            the step whose call fails ("none": no call fails)     *)
(*   supportsImport1 ver.SupportImportContentType() of the first version   *)
(*   supportsImport2   query and of the one made by fileGetVolumeID        *)
(*   list            the listing returned before the upload                *)
(*   content         the bytes found at the local path or behind the URL   *)
(*   dsPath          the path of the datastore: "nil", "empty" or "path"   *)
(*   dsContent       the content types the datastore supports              *)
(*   raced           another writer removes the file before the re-read    *)
(*   obs             what the stat or HEAD request of the re-read finds    *)
(* The call is a chain of steps over a context c; c.ret marks that the     *)
(* function has returned, and every later step leaves c alone.             *)
(***************************************************************************)
\* fmt.Sprintf("%x", sha256(content)): lower-case hex, one digest per content
Sha256Hex(content) == IF content = "c1" THEN <<"a", "b">> ELSE <<"c", "d">>

\* return <diags>
Return(c, diags) == [c EXCEPT !.ret = TRUE, !.diags = diags]

NewContext(d, files) ==
  [d |-> d, files |-> files, diags |-> <<>>, calls |-> <<>>,
   tmpCreated |-> {}, deferred |-> {}, ret |-> FALSE, panic |-> FALSE,
   fileName |-> <<>>, contentType |-> <<>>, ctNil |-> FALSE,
   local |-> <<>>, data |-> <<>>, uploaded |-> <<>>, requestType |-> <<>>,
   expired |-> FALSE]

\* lines 322-326: ctx carries the deadline of timeout_upload seconds (and the
\* caller's cancellation). env.fail = "deadlineList", "deadlineDownload" or
\* "deadlineUpload" is the deadline firing while that step is in flight. A
\* call that was handed ctx returns the context's error, which the code
\* reports where it reports any other error of that call; c.expired is the
\* context being done when a later step is entered.
errDeadline == <<"d", "e", "a", "d", "l", "i", "n", "e">>

\* lines 330-353: file name, client, content type, listing
CreateResolve(c, env) ==
  LET n == fileGetSourceFileName(c.d)
      ct == fileGetContentType(c.d, env.supportsImport1)
  IN  IF n.err # <<>> THEN Return(c, n.err)
      ELSE IF env.fail = "getClient" THEN Return(c, <<Err("GetClient", <<>>, <<>>)>>)
      ELSE IF env.fail = "list"
        THEN Return([c EXCEPT !.calls = <<"Version", "List">>],
                    <<Err("ListFiles", <<>>, <<>>)>>)
      ELSE IF env.fail = "deadlineList"
        THEN Return([c EXCEPT !.calls = <<"Version", "List">>, !.expired = TRUE],
                    <<Err("ListFiles", errDeadline, <<>>)>>)
      ELSE [c EXCEPT !.fileName = n.name,
                     !.contentType = ct.ct,
                     !.ctNil = ct.nil,
                     !.diags = ct.diags,
                     !.calls = <<"Version", "List">>]

\* lines 355-375: the loop over the listing, from entry i on
RECURSIVE CollisionLoop(_, _, _)
CollisionLoop(c, list, i) ==
  IF i > Len(list) THEN c
  ELSE LET volumeID == fileParseVolumeID(list[i].VolumeID)
       IN  IF volumeID.err THEN CollisionLoop(c, list, i + 1)
           ELSE IF volumeID.v.fileName # c.fileName THEN CollisionLoop(c, list, i + 1)
           ELSE IF c.d.overwrite
             THEN CollisionLoop(
                    [c EXCEPT !.diags = @ \o <<Warn("Overwritten", String(volumeID.v), <<>>)>>],
                    list, i + 1)
             ELSE Return(c, <<Err("AlreadyExists", String(volumeID.v), <<>>)>>)

\* faulty variant: the loop compares full identities instead of file names
CreateCollision_byIdentity(c, env) ==
  IF c.ret THEN c
  ELSE LET target == String([datastoreID |-> c.d.datastore_id,
                             contentType |-> c.contentType,
                             fileName |-> c.fileName])
           hits == {i \in 1..Len(env.list) : env.list[i].VolumeID = target}
       IN  IF hits = {} THEN c
           ELSE IF c.d.overwrite
             THEN [c EXCEPT !.diags = @ \o <<Warn("Overwritten", target, <<>>)>>]
             ELSE Return(c, <<Err("AlreadyExists", target, <<>>)>>)

CreateCollision(c, env) == IF c.ret THEN c ELSE CollisionLoop(c, env.list, 1)

\* lines 377-394: both sources given; any error so far ends the call
CreateSourceCheck(c) ==
  IF c.ret THEN c
  ELSE LET diags == IF Len(c.d.source_file) > 0 /\ Len(c.d.source_raw) > 0
                      THEN c.diags \o <<Err("NotBoth", <<>>, <<>>)>>
                      ELSE c.diags
       IN  IF HasError(diags) THEN Return(c, diags) ELSE [c EXCEPT !.diags = diags]

\* lines 406-460: a URL is downloaded into the temporary file "download",
\* whose removal is deferred as soon as it exists. httpClient.Get (line 425)
\* builds its request without ctx and the client has no Timeout, so neither
\* the request nor io.Copy of the body (line 448) sees the deadline: the
\* download runs to its end and only the context is left expired.
CreateDownload(c, env) ==
  IF c.ret \/ Len(c.d.source_file) = 0 THEN c
  ELSE IF ~fileIsURL(c.d) THEN [c EXCEPT !.local = c.d.source_file[1].path]
  ELSE IF env.fail = "minTLS" THEN Return(c, <<Err("MinTLS", <<>>, <<>>)>>)
  ELSE IF env.fail = "httpGet"
    THEN Return([c EXCEPT !.calls = @ \o <<"HttpGet">>], <<Err("HttpGet", <<>>, <<>>)>>)
  ELSE IF env.fail = "createTempDownload"
    THEN Return([c EXCEPT !.calls = @ \o <<"HttpGet">>], <<Err("CreateTemp", <<>>, <<>>)>>)
  ELSE LET c1 == [c EXCEPT !.calls = @ \o <<"HttpGet", "CreateTemp">>,
                           !.tmpCreated = @ \cup {"download"},
                           !.deferred = @ \cup {"download"}]
       IN  IF env.fail = "copyDownload"
             THEN Return(c1, c1.diags \o <<Err("CopyDownload", <<>>, <<>>)>>)
             ELSE [c1 EXCEPT !.local = <<"download">>,
                             !.expired = env.fail = "deadlineDownload"]

\* faulty variant: the checksum is computed but never compared
CreateChecksum_ignored(c, env) ==
  IF c.ret \/ Len(c.d.source_file) = 0 THEN c
  ELSE IF c.d.source_file[1].checksum = <<>> THEN c
  ELSE IF env.fail = "openChecksum" THEN Return(c, <<Err("Open", c.local, <<>>)>>)
  ELSE IF env.fail = "hashChecksum"
    THEN Return([c EXCEPT !.calls = @ \o <<"Hash">>], c.diags \o <<Err("Hash", <<>>, <<>>)>>)
  ELSE [c EXCEPT !.calls = @ \o <<"Hash">>]

\* lines 462-491: the SHA-256 of the local file against source_file.checksum
CreateChecksum(c, env) ==
  IF c.ret \/ Len(c.d.source_file) = 0 THEN c
  ELSE IF c.d.source_file[1].checksum = <<>> THEN c
  ELSE IF env.fail = "openChecksum" THEN Return(c, <<Err("Open", c.local, <<>>)>>)
  ELSE IF env.fail = "hashChecksum"
    THEN Return([c EXCEPT !.calls = @ \o <<"Hash">>], c.diags \o <<Err("Hash", <<>>, <<>>)>>)
  ELSE LET calculatedChecksum == Sha256Hex(env.content)
           c1 == [c EXCEPT !.calls = @ \o <<"Hash">>]
       IN  IF c.d.source_file[1].checksum # calculatedChecksum
             THEN Return(c1, <<Err("ChecksumMismatch", calculatedChecksum,
                                   c.d.source_file[1].checksum)>>)
             ELSE c1

\* a character that takes two bytes in UTF-8
chWIDE == "W"

\* len(s) of a Go string: its number of bytes
RECURSIVE ByteLen(_)
ByteLen(s) ==
  IF s = <<>> THEN 0 ELSE (IF s[1] = chWIDE THEN 2 ELSE 1) + ByteLen(SubSeq(s, 2, Len(s)))

\* fmt.Sprintf("%-<n>v", data): data padded with spaces on the right to a
\* width of n, the width being counted in characters
PadRight(data, n) ==
  IF Len(data) >= n THEN data ELSE data \o [i \in 1..(n - Len(data)) |-> " "]

\* lines 495-533: the raw payload, resized, is written to the temporary
\* file "raw".  A failure of os.CreateTemp returns diag.FromErr of the outer
\* err, which is nil there: no diagnostic at all.  The removal of the file is
\* deferred only after it has been written and closed.
CreateRaw(c, env) ==
  IF c.ret \/ Len(c.d.source_raw) = 0 THEN c
  ELSE LET raw == c.d.source_raw[1]
       IN  IF raw.resize > 0 /\ ByteLen(raw.data) > raw.resize
             THEN Return(c, <<Err("Resize", Hex(ByteLen(raw.data)), Hex(raw.resize))>>)
           ELSE IF env.fail = "createTempRaw" THEN Return(c, <<>>)
           ELSE LET data == IF raw.resize > 0 THEN PadRight(raw.data, raw.resize)
                            ELSE raw.data
                    c1 == [c EXCEPT !.calls = @ \o <<"CreateTemp">>,
                                    !.tmpCreated = @ \cup {"raw"}]
                IN  IF env.fail = "writeRaw"
                      THEN Return(c1, c1.diags \o <<Err("WriteRaw", <<>>, <<>>)>>)
                      ELSE [c1 EXCEPT !.local = <<"raw">>,
                                      !.data = data,
                                      !.deferred = @ \cup {"raw"}]

\* fileVolumeID{datastoreID, contentType, fileName}.String()
Volume3(ds, ct, name) == String([datastoreID |-> ds, contentType |-> ct, fileName |-> name])

\* the volume the backend holds after an upload of the request
StoredVolume(c) == Volume3(c.d.datastore_id, c.contentType, c.fileName)

\* faulty variant: the import content type is sent through the streaming transport
CreateUpload_importStreamed(c, env) ==
  IF c.ret THEN c
  ELSE IF env.fail = "openSource" THEN Return(c, <<Err("Open", c.local, <<>>)>>)
  ELSE IF c.contentType \in {ctISO, ctVZTMPL}
    THEN LET c1 == [c EXCEPT !.calls = @ \o <<"APIUpload">>,
                             !.requestType = c.contentType]
         IN  IF env.fail = "upload"
               THEN Return(c1, c1.diags \o <<Err("Upload", <<>>, <<>>)>>)
               ELSE [c1 EXCEPT !.files = @ \cup {StoredVolume(c)},
                               !.uploaded = StoredVolume(c)]
  ELSE LET c1 == [c EXCEPT !.calls = @ \o <<"GetDatastore">>]
       IN  IF env.fail = "getDatastore"
             THEN Return(c1, <<Err("GetDatastore", <<>>, <<>>)>>)
           ELSE IF env.dsPath \in {"nil", "empty"}
             THEN Return(c1, <<Err("NoDatastorePath", <<>>, <<>>)>>)
           ELSE LET diags == IF c.contentType \in env.dsContent THEN c1.diags
                             ELSE c1.diags \o
                                    <<Warn("UnsupportedContentType", c.contentType, <<>>)>>
                    c2 == [c1 EXCEPT !.diags = diags,
                                     !.calls = @ \o <<"StreamUpload">>,
                                     !.requestType = IF c.contentType = ctBACKUP
                                                       THEN ctDUMP ELSE c.contentType]
                IN  IF env.fail = "upload"
                      THEN Return(c2, c2.diags \o <<Err("Upload", <<>>, <<>>)>>)
                      ELSE [c2 EXCEPT !.files = @ \cup {StoredVolume(c)},
                                      !.uploaded = StoredVolume(c)]

\* faulty variant: a content type the datastore does not list is an error
CreateUpload_strictContent(c, env) ==
  IF c.ret THEN c
  ELSE IF env.fail = "openSource" THEN Return(c, <<Err("Open", c.local, <<>>)>>)
  ELSE IF c.contentType \in {ctISO, ctVZTMPL, ctIMPORT}
    THEN LET c1 == [c EXCEPT !.calls = @ \o <<"APIUpload">>,
                             !.requestType = c.contentType]
         IN  IF env.fail = "upload"
               THEN Return(c1, c1.diags \o <<Err("Upload", <<>>, <<>>)>>)
               ELSE [c1 EXCEPT !.files = @ \cup {StoredVolume(c)},
                               !.uploaded = StoredVolume(c)]
  ELSE LET c1 == [c EXCEPT !.calls = @ \o <<"GetDatastore">>]
       IN  IF env.fail = "getDatastore"
             THEN Return(c1, <<Err("GetDatastore", <<>>, <<>>)>>)
           ELSE IF env.dsPath \in {"nil", "empty"}
             THEN Return(c1, <<Err("NoDatastorePath", <<>>, <<>>)>>)
           ELSE IF c.contentType \notin env.dsContent
             THEN Return(c1, <<Err("UnsupportedContentType", c.contentType, <<>>)>>)
           ELSE LET diags == c1.diags
                    c2 == [c1 EXCEPT !.diags = diags,
                                     !.calls = @ \o <<"StreamUpload">>,
                                     !.requestType = IF c.contentType = ctBACKUP
                                                       THEN ctDUMP ELSE c.contentType]
                IN  IF env.fail = "upload"
                      THEN Return(c2, c2.diags \o <<Err("Upload", <<>>, <<>>)>>)
                      ELSE [c2 EXCEPT !.files = @ \cup {StoredVolume(c)},
                                      !.uploaded = StoredVolume(c)]

\* lines 536-603: open the local file and upload it through the API or,
\* for the other content types, through the streaming transport
CreateUpload(c, env) ==
  IF c.ret THEN c
  ELSE IF env.fail = "openSource" THEN Return(c, <<Err("Open", c.local, <<>>)>>)
  ELSE IF c.contentType \in {ctISO, ctVZTMPL, ctIMPORT}
    THEN LET c1 == [c EXCEPT !.calls = @ \o <<"APIUpload">>,
                             !.requestType = c.contentType]
         IN  IF env.fail = "upload"
               THEN Return(c1, c1.diags \o <<Err("Upload", <<>>, <<>>)>>)
             ELSE IF c.expired \/ env.fail = "deadlineUpload"
               THEN Return([c1 EXCEPT !.expired = TRUE], c1.diags \o <<Err("Upload", errDeadline, <<>>)>>)
               ELSE [c1 EXCEPT !.files = @ \cup {StoredVolume(c)},
                               !.uploaded = StoredVolume(c)]
  ELSE LET c1 == [c EXCEPT !.calls = @ \o <<"GetDatastore">>]
       IN  IF env.fail = "getDatastore"
             THEN Return(c1, <<Err("GetDatastore", <<>>, <<>>)>>)
           ELSE IF c.expired THEN Return(c1, <<Err("GetDatastore", errDeadline, <<>>)>>)
           ELSE IF env.dsPath \in {"nil", "empty"}
             THEN Return(c1, <<Err("NoDatastorePath", <<>>, <<>>)>>)
           ELSE LET diags == IF c.contentType \in env.dsContent THEN c1.diags
                             ELSE c1.diags \o
                                    <<Warn("UnsupportedContentType", c.contentType, <<>>)>>
                    c2 == [c1 EXCEPT !.diags = diags,
                                     !.calls = @ \o <<"StreamUpload">>,
                                     !.requestType = IF c.contentType = ctBACKUP
                                                       THEN ctDUMP ELSE c.contentType]
                IN  IF env.fail = "upload"
                      THEN Return(c2, c2.diags \o <<Err("Upload", <<>>, <<>>)>>)
                    ELSE IF env.fail = "deadlineUpload"
                      THEN Return([c2 EXCEPT !.expired = TRUE],
                                  c2.diags \o <<Err("Upload", errDeadline, <<>>)>>)
                      ELSE [c2 EXCEPT !.files = @ \cup {StoredVolume(c)},
                                      !.uploaded = StoredVolume(c)]

\* the listing of the files, in the order the backend keeps them
ListingOf(files) ==
  LET order == CHOOSE s \in [1..Cardinality(files) -> files] :
                 \A i, j \in 1..Cardinality(files) : i # j => s[i] # s[j]
  IN  [i \in 1..Cardinality(files) |-> ListEntry(order[i])]

\* lines 611-619: the identity is stored and the result r of fileRead taken
\* over; an identity cleared by the read is one more error
FinishRead(c, id, fs, r) ==
  Return([c EXCEPT !.d = r.d, !.files = fs, !.calls = @ \o r.calls],
         IF r.d.id = <<>>
           THEN c.diags \o r.diags \o <<Err("FailedToRead", id, <<>>)>>
           ELSE c.diags \o r.diags)

\* the files the re-read lists: without the uploaded one when another writer
\* has removed it in between
FilesAtReread(c, env) == IF env.raced THEN c.files \ {c.uploaded} ELSE c.files

\* lines 605-610: fileGetVolumeID, n and ct being the file name and the
\* content type it computes; it dereferences the content type without a
\* nil check
FinishIdentity(c, env, n, ct) ==
  IF n.err # <<>> THEN Return(c, c.diags \o n.err)
  ELSE IF ct.nil THEN [c EXCEPT !.ret = TRUE, !.panic = TRUE, !.calls = @ \o <<"Version">>]
  ELSE IF HasError(c.diags \o ct.diags)
    THEN Return([c EXCEPT !.calls = @ \o <<"Version">>], c.diags \o ct.diags)
  ELSE FinishRead([c EXCEPT !.calls = @ \o <<"Version">>, !.diags = @ \o ct.diags],
                  Volume3(c.d.datastore_id, ct.ct, n.name),
                  FilesAtReread(c, env),
                  fileRead([c.d EXCEPT !.id = Volume3(c.d.datastore_id, ct.ct, n.name)],
                           FALSE,
                           [err |-> env.fail = "rereadList",
                            list |-> ListingOf(FilesAtReread(c, env))],
                           env.obs))

\* lines 605-619: the identity is computed again (with a second version
\* query), stored, and the resource is read back
CreateFinish(c, env) ==
  IF c.ret THEN c
  ELSE FinishIdentity(c, env, fileGetSourceFileName(c.d),
                      fileGetContentType(c.d, env.supportsImport2))

fileCreate(d, files, env) ==
  CreateFinish(CreateUpload(CreateRaw(CreateChecksum(CreateDownload(CreateSourceCheck(
    CreateCollision(CreateResolve(NewContext(d, files), env), env)), env), env),
    env), env), env)

(***************************************************************************)
(* State.                                                                  *)
(*   d        the resource data: the configuration and the computed        *)
(*            attributes of the managed file, d.id = <<>> when it is       *)
(*            absent                                                       *)
(*   files    the volume ids the datastore holds                           *)
(*   tempDir  the temporary files left in config.TempDir()                 *)
(*   res      the last call of a handler: its diagnostics, the calls it    *)
(*            made and what the environment answered                       *)
(*   pstep, pv, pin, pout                                                  *)
(*            one call of a function on its own (SpecParse, SpecResolve,   *)
(*            SpecImport): the step, the input and the result              *)
(***************************************************************************)
VARIABLES d, files, tempDir, res, pstep, pv, pin, pout

vars == <<d, files, tempDir, res, pstep, pv, pin, pout>>

rvars == <<d, files, tempDir, res>>

pvars == <<pstep, pv, pin, pout>>

\* most files other writers keep in the datastore at a time
MaxFiles == 2

dsLOCAL == <<"l", "o", "c", "a", "l">>

nodePVE == <<"p", "v", "e">>

pathLocalISO == <<"/", "d", "/", "a", ".", "i", "s", "o">>

pathURLISO == sHTTP \o <<"h", "/", "a", ".", "i", "s", "o">>

nameYAML == <<"a", ".", "y", "a", "m", "l">>

nameISO == <<"a", ".", "i", "s", "o">>

dataABC == <<"a", "b", "c">>

dataWide == <<chWIDE>>

nameTARGZ == <<"a">> \o sufTARGZ

nameRAW == <<"a">> \o sufRAW

ctUnknown == <<"x">>

sumGood == <<"a", "b">>

sumUpper == <<"A", "B">>

\* line 47: the default of timeout_upload, in seconds
dvResourceVirtualEnvironmentFileTimeoutUpload == 1800

\* the resource data of a resource that does not exist and has no source
Blank ==
  [id |-> <<>>, content_type |-> <<>>, datastore_id |-> dsLOCAL, node_name |-> nodePVE,
   overwrite |-> TRUE, file_mode |-> <<>>,
   timeout_upload |-> dvResourceVirtualEnvironmentFileTimeoutUpload,
   source_file |-> <<>>, source_raw |-> <<>>, file_name |-> <<>>,
   file_modification_date |-> <<>>, file_size |-> 0, file_tag |-> <<>>]

SourceFile(path, checksum) ==
  <<[path |-> path, checksum |-> checksum, file_name |-> <<>>, changed |-> FALSE]>>

SourceRaw(data, name, resize) == <<[data |-> data, file_name |-> name, resize |-> resize]>>

\* the configurations a resource is created from
Configs ==
  {[Blank EXCEPT !.overwrite = ow, !.source_file = SourceFile(path, <<>>)] :
     ow \in BOOLEAN, path \in {pathLocalISO, pathURLISO}}
  \cup
  {[Blank EXCEPT !.source_file = SourceFile(pathLocalISO, sum)] : sum \in {sumGood, sumUpper}}
  \cup
  {[Blank EXCEPT !.source_file = SourceFile(pathURLISO, sumGood)]}
  \cup
  {[Blank EXCEPT !.overwrite = ow, !.content_type = ct,
                 !.source_raw = SourceRaw(dataABC, nameYAML, 0)] :
     ow \in BOOLEAN, ct \in {<<>>, ctBACKUP}}
  \cup
  {[Blank EXCEPT !.content_type = ctUnknown, !.source_raw = SourceRaw(dataABC, nameYAML, 0)]}
  \cup
  {[Blank EXCEPT !.source_raw = SourceRaw(dataABC, n, 0)] : n \in {nameTARGZ, nameRAW}}
  \cup
  {[Blank EXCEPT !.source_raw = SourceRaw(data, nameYAML, resize)] :
     data \in {dataABC, dataWide}, resize \in {2, 3, 5}}
  \cup
  {[Blank EXCEPT !.overwrite = ow, !.source_file = SourceFile(pathLocalISO, <<>>),
                 !.source_raw = SourceRaw(dataABC, nameYAML, 0)] : ow \in BOOLEAN}

Volume(ct, name) == String([datastoreID |-> dsLOCAL, contentType |-> ct, fileName |-> name])

\* the volumes other writers put into the datastore; <<"x">> is no
\* datastore_id:content_type/file_name identity
ExternalVolumes ==
  {Volume(ctISO, nameISO), Volume(ctSNIPPETS, nameYAML), Volume(ctBACKUP, nameYAML), <<"x">>}

Reverse(s) == [i \in 1..Len(s) |-> s[Len(s) + 1 - i]]

NoObservation == [kind |-> "notexist", mtime |-> 0, size |-> 0]

\* what the source of d can be observed as: a stat for a path, a HEAD for a URL
Observations(dd) ==
  IF Len(dd.source_file) = 0 THEN {NoObservation}
  ELSE IF fileIsURL(dd) THEN URLObservations
  ELSE FileObservations

IsStreamed(dd) ==
  LET ct == fileGetContentType(dd, TRUE)
  IN  ~ct.nil /\ ct.ct \notin {ctISO, ctVZTMPL, ctIMPORT}

\* the steps of fileCreate that can fail for the configuration dd
CreateFails(dd) ==
  {"none", "getClient", "list", "openSource", "upload", "rereadList",
   "deadlineList", "deadlineUpload"}
    \cup (IF fileIsURL(dd)
            THEN {"minTLS", "httpGet", "createTempDownload", "copyDownload",
                  "deadlineDownload"}
            ELSE {})
    \cup (IF Len(dd.source_file) > 0 /\ dd.source_file[1].checksum # <<>>
            THEN {"openChecksum", "hashChecksum"} ELSE {})
    \cup (IF Len(dd.source_raw) > 0 THEN {"createTempRaw", "writeRaw"} ELSE {})
    \cup (IF IsStreamed(dd) THEN {"getDatastore"} ELSE {})

\* the content type of dd depends on what the version supports
NeedsImport(dd) == fileGetContentType(dd, TRUE) # fileGetContentType(dd, FALSE)

\* one answer of the environment to fileCreate
Env(f, s1, s2, l, c, p, dc, r, o) ==
  [fail |-> f, supportsImport1 |-> s1, supportsImport2 |-> s2,
   list |-> l, content |-> c, dsPath |-> p, dsContent |-> dc, raced |-> r, obs |-> o]

AnyObservation(dd) == CHOOSE o \in Observations(dd) : TRUE

ImportAnswers(dd) == IF NeedsImport(dd) THEN BOOLEAN ELSE {TRUE}

Listings(fs) == {ListingOf(fs), Reverse(ListingOf(fs))}

Contents(dd) ==
  IF Len(dd.source_file) > 0 /\ dd.source_file[1].checksum # <<>> THEN {"c1", "c2"}
  ELSE {"c1"}

DatastoreContents(dd) == IF IsStreamed(dd) THEN {{ctISO}, {ctBACKUP, ctSNIPPETS}} ELSE {{}}

\* the answers of the environment to one fileCreate on dd; an answer no step
\* asks for takes one fixed value: the datastore is asked for only on the
\* way to a streaming upload, the re-read happens only when nothing failed
CreateEnvs(dd, fs) ==
  {Env(f, s1, s2, l, c, "path", dc, FALSE, AnyObservation(dd)) :
     f \in CreateFails(dd) \ {"none"},
     s1 \in ImportAnswers(dd), s2 \in ImportAnswers(dd),
     l \in Listings(fs), c \in Contents(dd), dc \in DatastoreContents(dd)}
  \cup
  {Env("none", s1, s2, l, c, p, dc, FALSE, AnyObservation(dd)) :
     s1 \in ImportAnswers(dd), s2 \in ImportAnswers(dd),
     l \in Listings(fs), c \in Contents(dd),
     p \in IF IsStreamed(dd) THEN {"nil", "empty"} ELSE {},
     dc \in DatastoreContents(dd)}
  \cup
  {Env("none", s1, s2, l, c, "path", dc, r, o) :
     s1 \in ImportAnswers(dd), s2 \in ImportAnswers(dd),
     l \in Listings(fs), c \in Contents(dd), dc \in DatastoreContents(dd),
     r \in BOOLEAN, o \in Observations(dd)}

Outcome(c) == IF c.panic THEN "panic" ELSE IF HasError(c.diags) THEN "error" ELSE "ok"

NoResult ==
  [op |-> "none", outcome |-> "ok", diags |-> <<>>, calls |-> <<>>,
   tmpCreated |-> {}, tmpRemoved |-> {}, list |-> <<>>, content |-> "c1",
   uploaded |-> <<>>, requestType |-> <<>>, ct |-> <<>>, data |-> <<>>,
   supportsImport |-> TRUE, fail |-> "none", dsPath |-> "path", dsContent |-> {},
   raced |-> FALSE, id |-> <<>>, last |-> NoAttrs,
   obs |-> NoObservation, fresh |-> NoAttrs, answer |-> "none"]

Init ==
  /\ d = Blank
  /\ files = {}
  /\ tempDir = {}
  /\ res = NoResult
  /\ pstep = "idle"
  /\ pv = ZeroVolumeID
  /\ pin = <<>>
  /\ pout = [v |-> ZeroVolumeID, err |-> FALSE]

\* the framework builds the resource data of a new resource from its
\* configuration (schema of File, lines 73-231); a run follows one resource
Plan ==
  /\ d = Blank
  /\ \E cfg \in Configs : d' = cfg
  /\ res' = [NoResult EXCEPT !.op = "plan"]
  /\ UNCHANGED <<files, tempDir>>

\* CreateContext: fileCreate, with its deferred removals run at the return
Create ==
  /\ d.id = <<>>
  /\ res.op = "plan"
  /\ \E env \in CreateEnvs(d, files) :
       \E c \in {fileCreate(d, files, env)} :
           /\ d' = IF c.panic THEN d ELSE c.d
           /\ files' = c.files
           /\ tempDir' = tempDir \cup (c.tmpCreated \ c.deferred)
           /\ res' = [NoResult EXCEPT !.op = "create",
                                      !.outcome = Outcome(c),
                                      !.diags = c.diags,
                                      !.calls = c.calls,
                                      !.tmpCreated = c.tmpCreated,
                                      !.tmpRemoved = c.deferred,
                                      !.list = env.list,
                                      !.content = env.content,
                                      !.obs = env.obs,
                                      !.fresh = IF fileIsURL(d) THEN readURL(env.obs)
                                                ELSE readFile(env.obs),
                                      !.uploaded = c.uploaded,
                                      !.requestType = c.requestType,
                                      !.ct = d.content_type,
                                      !.data = c.data,
                                      !.supportsImport = env.supportsImport1,
                                      !.fail = env.fail,
                                      !.dsPath = env.dsPath,
                                      !.dsContent = env.dsContent,
                                      !.raced = env.raced]

\* ReadContext: fileRead
Read ==
  /\ d.id # <<>>
  /\ \E fail \in {"none", "getClient", "list"} :
     \E obs \in IF fail = "none" THEN Observations(d) ELSE {AnyObservation(d)} :
       \E r \in {fileRead(d, fail = "getClient",
                            [err |-> fail = "list", list |-> ListingOf(files)], obs)} :
           /\ d' = r.d
           /\ res' = [NoResult EXCEPT !.op = "read",
                                      !.outcome = IF HasError(r.diags) THEN "error" ELSE "ok",
                                      !.diags = r.diags,
                                      !.calls = r.calls,
                                      !.list = IF fail = "list" THEN <<>> ELSE ListingOf(files),
                                      !.id = d.id,
                                      !.last = Recorded(d),
                                      !.obs = obs,
                                      !.fresh = IF fileIsURL(d) THEN readURL(obs)
                                                ELSE readFile(obs)]
  /\ UNCHANGED <<files, tempDir>>

\* DeleteContext: fileDelete; the backend removes a file it holds or answers
\* that the resource does not exist, or the call fails
Delete ==
  /\ d.id # <<>>
  /\ \E clientErr \in BOOLEAN,
        answer \in (IF d.id \in files THEN {"ok"} ELSE {"notexist"}) \cup {"error"} :
       \E r \in {fileDelete(d, clientErr, answer)} :
           /\ d' = r.d
           /\ files' = IF ~clientErr /\ answer = "ok" THEN files \ {d.id} ELSE files
           /\ res' = [NoResult EXCEPT !.op = "delete",
                                      !.outcome = IF HasError(r.diags) THEN "error" ELSE "ok",
                                      !.diags = r.diags,
                                      !.calls = r.calls,
                                      !.id = d.id,
                                      !.answer = IF clientErr THEN "none" ELSE answer]
  /\ UNCHANGED tempDir

\* UpdateContext: fileUpdate
Update ==
  /\ d.id # <<>>
  /\ \E r \in {fileUpdate(d)} :
         /\ d' = r.d
         /\ res' = [NoResult EXCEPT !.op = "update", !.diags = r.diags,
                                    !.calls = r.calls]
  /\ UNCHANGED <<files, tempDir>>

\* another writer stores a file in the datastore
ExternalAdd ==
  /\ Cardinality(files) < MaxFiles
  /\ \E v \in ExternalVolumes \ files : files' = files \cup {v}
  /\ res' = [NoResult EXCEPT !.op = "external"]
  /\ UNCHANGED <<d, tempDir>>

\* another writer removes a file from the datastore
ExternalRemove ==
  /\ \E v \in files : files' = files \ {v}
  /\ res' = [NoResult EXCEPT !.op = "external"]
  /\ UNCHANGED <<d, tempDir>>

Next ==
  \/ (Plan /\ UNCHANGED pvars)
  \/ (Create /\ UNCHANGED pvars)
  \/ (Read /\ UNCHANGED pvars)
  \/ (Delete /\ UNCHANGED pvars)
  \/ (Update /\ UNCHANGED pvars)
  \/ (ExternalAdd /\ UNCHANGED pvars)
  \/ (ExternalRemove /\ UNCHANGED pvars)

Spec == Init /\ [][Next]_vars

(***************************************************************************)
(* The identity functions on their own: one call of String or of           *)
(* fileParseVolumeID on an input drawn from the bounded sets.              *)
(***************************************************************************)
Parts == StrsOver(PartChars, MaxPart)

ParseInit ==
  /\ d = Blank
  /\ files = {}
  /\ tempDir = {}
  /\ res = NoResult
  /\ pout = [v |-> ZeroVolumeID, err |-> FALSE]
  /\ \/ /\ pstep = "identity"
        /\ pv \in [datastoreID : Parts, contentType : Parts, fileName : Parts]
        /\ pin = <<>>
     \/ /\ pstep = "string"
        /\ pv = ZeroVolumeID
        /\ pin \in StrsOver(Chars, MaxStrLen)

\* v.String()
FormatStep ==
  /\ pstep = "identity"
  /\ pin' = String(pv)
  /\ pstep' = "formatted"
  /\ UNCHANGED <<pv, pout, rvars>>

\* fileParseVolumeID(v.String())
ParseFormattedStep ==
  /\ pstep = "formatted"
  /\ pout' = fileParseVolumeID(pin)
  /\ pstep' = "roundtrip"
  /\ UNCHANGED <<pv, pin, rvars>>

\* fileParseVolumeID(id) on an arbitrary string
ParseStep ==
  /\ pstep = "string"
  /\ pout' = fileParseVolumeID(pin)
  /\ pstep' = "parsed"
  /\ UNCHANGED <<pv, pin, rvars>>

ParseNext == FormatStep \/ ParseFormattedStep \/ ParseStep

SpecParse == ParseInit /\ [][ParseNext]_vars

(***************************************************************************)
(* fileGetContentType and fileGetSourceFileName on their own: one call on  *)
(* a resource data d drawn from ResolveConfigs, pin holding the answer of  *)
(* the version query.                                                      *)
(***************************************************************************)
ResolvePrefixes ==
  {<<>>, <<"/", "d", "/">>, sHTTP \o <<"h", "/">>, sHTTPS \o <<"h", "/", "p", "/">>}

ResolveStems == {<<>>, <<"a">>}

ResolveSuffixes ==
  {sufTARGZ, sufTARXZ, sufQCOW2, sufRAW, sufVMDK,
   <<".", "i", "m", "g">>, <<".", "i", "s", "o">>, <<".", "I", "S", "O">>,
   <<".", "y", "a", "m", "l">>, <<".", "y", "m", "l">>, <<".", "x", "y", "z">>,
   <<"i", "s", "o">>, <<>>, <<"/">>}

\* file names without a directory
ResolveNames == {st \o su : st \in ResolveStems, su \in ResolveSuffixes \ {<<"/">>}}

\* paths and URLs, a URL without any path among them
ResolvePaths ==
  {pr \o st \o su : pr \in ResolvePrefixes, st \in ResolveStems, su \in ResolveSuffixes}
    \cup {sHTTP \o <<"h">>}

ResolveOverrides == {<<>>, <<"o", ".", "i", "m", "g">>}

ResolveContentTypes == {<<>>, ctBACKUP, <<"x">>}

ResolveConfigs ==
  {[Blank EXCEPT !.content_type = ct,
                 !.source_file = <<[path |-> p, checksum |-> <<>>, file_name |-> o,
                                    changed |-> FALSE]>>] :
     ct \in ResolveContentTypes, p \in ResolvePaths, o \in ResolveOverrides}
  \cup
  {[Blank EXCEPT !.content_type = ct, !.source_raw = SourceRaw(dataABC, n, 0)] :
     ct \in ResolveContentTypes, n \in ResolveNames}
  \cup
  {[Blank EXCEPT !.content_type = ct] : ct \in ResolveContentTypes}
  \cup
  {[Blank EXCEPT !.source_file = SourceFile(pathLocalISO, <<>>),
                 !.source_raw = SourceRaw(dataABC, n, 0)] : n \in {nameYAML, <<>>}}

ResolveInit ==
  /\ d \in ResolveConfigs
  /\ files = {}
  /\ tempDir = {}
  /\ res = NoResult
  /\ pstep = "config"
  /\ pv = ZeroVolumeID
  /\ pin \in [supportsImport : BOOLEAN]
  /\ pout = <<>>

\* fileGetContentType(ctx, d, c)
ContentTypeStep ==
  /\ pstep = "config"
  /\ pout' = fileGetContentType(d, pin.supportsImport)
  /\ pstep' = "contentType"
  /\ UNCHANGED <<pv, pin, rvars>>

\* fileGetSourceFileName(d)
FileNameStep ==
  /\ pstep = "config"
  /\ pout' = fileGetSourceFileName(d)
  /\ pstep' = "fileName"
  /\ UNCHANGED <<pv, pin, rvars>>

ResolveNext == ContentTypeStep \/ FileNameStep

SpecResolve == ResolveInit /\ [][ResolveNext]_vars

(***************************************************************************)
(* The import identifier on its own: fileParseImportID and the Importer on *)
(* an import id, either an arbitrary string or node/v.String() built from  *)
(* a node and an identity pv.                                              *)
(***************************************************************************)
ImportNodes == {<<>>, <<"n">>, <<"n", ":">>, <<"n", "/">>}

ImportNames == StrsOver(PartChars, 1)

\* the resource data the framework hands to the Importer: only the id is set
ImportBlank == [Blank EXCEPT !.node_name = <<>>, !.datastore_id = <<>>]

NoImport == [node |-> <<>>, v |-> ZeroVolumeID, err |-> FALSE]

ImportInit ==
  /\ d = ImportBlank
  /\ files = {}
  /\ tempDir = {}
  /\ res = NoResult
  /\ pout = NoImport
  /\ \/ /\ pstep = "nodeIdentity"
        /\ pv \in [node : ImportNodes, datastoreID : Parts, contentType : Parts,
                   fileName : ImportNames]
        /\ pin = <<>>
     \/ /\ pstep = "importID"
        /\ pv = [node |-> <<>>, datastoreID |-> <<>>, contentType |-> <<>>,
                 fileName |-> <<>>]
        /\ pin \in StrsOver(Chars, MaxStrLen)

\* node + "/" + v.String()
ImportFormatStep ==
  /\ pstep = "nodeIdentity"
  /\ pin' = pv.node \o <<"/">> \o String(pv)
  /\ pstep' = "importID"
  /\ UNCHANGED <<pv, pout, rvars>>

\* fileParseImportID(id)
ImportParseStep ==
  /\ pstep = "importID"
  /\ pout' = fileParseImportID(pin)
  /\ pstep' = "importParsed"
  /\ UNCHANGED <<pv, pin, rvars>>

\* terraform import: the Importer on a resource data whose id is the import id
ImporterStep ==
  /\ pstep = "importID"
  /\ \E r \in {ImportState([d EXCEPT !.id = pin], fileParseImportID(pin))} :
       /\ d' = r.d
       /\ pout' = [NoImport EXCEPT !.err = r.err]
  /\ pstep' = "imported"
  /\ UNCHANGED <<pv, pin, files, tempDir, res>>

ImportNext == ImportFormatStep \/ ImportParseStep \/ ImporterStep

SpecImport == ImportInit /\ [][ImportNext]_vars

(***************************************************************************)
(* A changed configuration of a resource that exists (schema of File,      *)
(* lines 73-231, and the handlers of lines 232-235).  The framework        *)
(* compares the new configuration with the one the resource was created    *)
(* from: when an attribute whose schema has ForceNew differs, it replaces  *)
(* the resource, calling DeleteContext and then CreateContext on the new   *)
(* configuration; when only other attributes differ, it calls              *)
(* UpdateContext on the resource data carrying their new values and        *)
(* records what the handler leaves.                                        *)
(*   pin   the configuration the resource was created from, the desired    *)
(*         one, the attributes that differ, the decision, the resource     *)
(*         data and the datastore before the change                        *)
(*   pout  the diagnostics and the calls of the handlers that ran          *)
(***************************************************************************)
\* faulty variant: file_mode declared without ForceNew
ForceNew_modeInPlace ==
  [content_type |-> TRUE, datastore_id |-> TRUE, file_mode |-> FALSE,
   node_name |-> TRUE, source_file |-> TRUE, source_raw |-> TRUE,
   timeout_upload |-> FALSE, overwrite |-> FALSE]

\* ForceNew of the configurable attributes: content_type (line 80),
\* datastore_id (88), file_mode (108), node_name (126), source_file (132),
\* source_raw (189); timeout_upload (219-224) and overwrite (225-230)
\* declare none
ForceNew ==
  [content_type |-> TRUE, datastore_id |-> TRUE, file_mode |-> TRUE,
   node_name |-> TRUE, source_file |-> TRUE, source_raw |-> TRUE,
   timeout_upload |-> FALSE, overwrite |-> FALSE]

ConfigAttrs == DOMAIN ForceNew

dsOTHER == <<"n", "f", "s">>

nodeOTHER == <<"p", "v", "2">>

modeOTHER == <<"0", "7", "0", "0">>

\* the configuration cfg with another value for the attribute a (cfg itself
\* when a is a source block that cfg does not have)
Changed(cfg, a) ==
  CASE a = "content_type" ->
         [cfg EXCEPT !.content_type = IF @ = ctSNIPPETS THEN ctISO ELSE ctSNIPPETS]
    [] a = "datastore_id" -> [cfg EXCEPT !.datastore_id = dsOTHER]
    [] a = "node_name" -> [cfg EXCEPT !.node_name = nodeOTHER]
    [] a = "file_mode" -> [cfg EXCEPT !.file_mode = modeOTHER]
    [] a = "source_file" ->
         IF Len(cfg.source_file) = 0 THEN cfg
         ELSE [cfg EXCEPT !.source_file[1].path =
                            IF @ = pathLocalISO THEN pathURLISO ELSE pathLocalISO]
    [] a = "source_raw" ->
         IF Len(cfg.source_raw) = 0 THEN cfg
         ELSE [cfg EXCEPT !.source_raw[1].data = IF @ = dataABC THEN dataWide ELSE dataABC]
    [] a = "timeout_upload" -> [cfg EXCEPT !.timeout_upload = 60]
    [] a = "overwrite" -> [cfg EXCEPT !.overwrite = ~@]

\* the configurations that differ from cfg in one attribute, or in one that
\* has ForceNew and one that has not, or in the two that have not
Desired(cfg) ==
  ({Changed(cfg, a) : a \in ConfigAttrs}
     \cup {Changed(Changed(cfg, a), b) : a \in ConfigAttrs,
                                         b \in {"timeout_upload", "overwrite"}})
    \ {cfg}

ChangedAttrs(cfg, desired) == {a \in ConfigAttrs : cfg[a] # desired[a]}

\* the framework's decision: one differing attribute with ForceNew is enough
RequiresNew(cfg, desired) == \E a \in ChangedAttrs(cfg, desired) : ForceNew[a]

\* the resource data UpdateContext is called on: the state, with the new
\* values of the attributes that differ
Merged(dd, desired, changed) ==
  [a \in DOMAIN dd |-> IF a \in changed THEN desired[a] ELSE dd[a]]

NoChange(cfg, dd, fs) ==
  [config |-> cfg, desired |-> cfg, changed |-> {}, requiresNew |-> FALSE,
   before |-> dd, files |-> fs]

NoHandler == [diags |-> <<>>, calls |-> <<>>]

\* the answers of the environment to the create of a resource that is then
\* changed: no call fails
CalmEnvs(cfg) ==
  {env \in CreateEnvs(cfg, {}) : env.fail = "none" /\ env.dsPath = "path" /\ ~env.raced}

\* a resource as a successful fileCreate leaves it
ChangeInit ==
  /\ \E cfg \in Configs :
       \E env \in CalmEnvs(cfg) :
         \E c \in {fileCreate(cfg, {}, env)} :
           /\ ~c.panic
           /\ ~HasError(c.diags)
           /\ d = c.d
           /\ files = c.files
           /\ pin = NoChange(cfg, c.d, c.files)
  /\ tempDir = {}
  /\ res = NoResult
  /\ pstep = "present"
  /\ pv = ZeroVolumeID
  /\ pout = NoHandler

\* the framework compares the desired configuration with the present one
ChangePlanStep ==
  /\ pstep = "present"
  /\ \E desired \in Desired(pin.config) :
       pin' = [pin EXCEPT !.desired = desired,
                          !.changed = ChangedAttrs(pin.config, desired),
                          !.requiresNew = RequiresNew(pin.config, desired)]
  /\ pstep' = "planned"
  /\ UNCHANGED <<d, files, tempDir, res, pv, pout>>

\* UpdateContext (line 235): fileUpdate on the merged resource data
ChangeUpdateStep ==
  /\ pstep = "planned"
  /\ ~pin.requiresNew
  /\ \E r \in {fileUpdate(Merged(d, pin.desired, pin.changed))} :
       /\ d' = r.d
       /\ pout' = [diags |-> r.diags, calls |-> r.calls]
  /\ pstep' = "updated"
  /\ UNCHANGED <<files, tempDir, res, pv, pin>>

\* DeleteContext (line 234) of a replacement: fileDelete on the old resource
ChangeDestroyStep ==
  /\ pstep = "planned"
  /\ pin.requiresNew
  /\ \E answer \in {"ok", "error"} :
       \E r \in {fileDelete(d, FALSE, answer)} :
         /\ d' = r.d
         /\ files' = IF answer = "ok" THEN files \ {d.id} ELSE files
         /\ pout' = [diags |-> r.diags, calls |-> r.calls]
         /\ pstep' = IF HasError(r.diags) THEN "failed" ELSE "destroyed"
  /\ UNCHANGED <<tempDir, res, pv, pin>>

\* CreateContext (line 232) of a replacement: fileCreate on the desired
\* configuration
ChangeCreateStep ==
  /\ pstep = "destroyed"
  /\ \E env \in CalmEnvs(pin.desired) :
       \E c \in {fileCreate(pin.desired, files, env)} :
         /\ d' = IF c.panic THEN pin.desired ELSE c.d
         /\ files' = c.files
         /\ pout' = [diags |-> pout.diags \o c.diags, calls |-> pout.calls \o c.calls]
  /\ pstep' = "recreated"
  /\ UNCHANGED <<tempDir, res, pv, pin>>

ChangeNext == ChangePlanStep \/ ChangeUpdateStep \/ ChangeDestroyStep \/ ChangeCreateStep

SpecChange == ChangeInit /\ [][ChangeNext]_vars

\* the claim's description of a malformed identity, by positions: c is the
\* first ':' and sl the first '/' after it
FirstSlashAfter(s, c) ==
  IF \E k \in (c + 1)..Len(s) : s[k] = "/"
    THEN CHOOSE k \in (c + 1)..Len(s) :
           s[k] = "/" /\ \A j \in (c + 1)..(k - 1) : s[j] # "/"
    ELSE 0

Malformed(s) ==
  LET c == IndexOf(s, ":")
      sl == FirstSlashAfter(s, c)
  IN  \/ c = 0
      \/ c = 1
      \/ c = Len(s)
      \/ sl = 0
      \/ sl = c + 1
      \/ sl = Len(s)

(***************************************************************************)
(* What the claims read off the last call.                                 *)
(***************************************************************************)
Called(call) == \E i \in 1..Len(res.calls) : res.calls[i] = call

UploadCalled == Called("APIUpload") \/ Called("StreamUpload")

HasDiag(sev, kind) ==
  \E i \in 1..Len(res.diags) : res.diags[i].sev = sev /\ res.diags[i].kind = kind

\* the file name the resource data asks for
TargetName == fileGetSourceFileName(d).name

\* the identities of the listing seen by the call whose file name is name
CollidingIn(list, name) ==
  {list[i].VolumeID : i \in {k \in 1..Len(list) :
      /\ ~Malformed(list[k].VolumeID)
      /\ LET id == list[k].VolumeID
             sl == FirstSlashAfter(id, IndexOf(id, ":"))
         IN  SubSeq(id, sl + 1, Len(id)) = name}}

\* fileCreate got its listing
CreateListed == res.op = "create" /\ Called("List") /\ ~HasDiag("error", "ListFiles")

(***************************************************************************)
(* C1: when the listing fileCreate fetched holds an entry whose file name  *)
(* is the target file name, then with overwrite = false the call fails     *)
(* with the one error 'already exists' naming a colliding identity and     *)
(* makes no upload call of either transport; with overwrite = true the     *)
(* collision is no error, and a call that uploaded and ended in success    *)
(* carries a warning naming every colliding identity.                      *)
(***************************************************************************)
C1_CollisionRule ==
  (CreateListed /\ CollidingIn(res.list, TargetName) # {}) =>
    /\ ~d.overwrite =>
         /\ res.outcome = "error"
         /\ Len(res.diags) = 1
         /\ res.diags[1].kind = "AlreadyExists"
         /\ res.diags[1].a \in CollidingIn(res.list, TargetName)
         /\ ~UploadCalled
         /\ res.uploaded = <<>>
    /\ d.overwrite =>
         /\ ~HasDiag("error", "AlreadyExists")
         /\ (res.outcome = "ok" /\ res.uploaded # <<>>) =>
              \A v \in CollidingIn(res.list, TargetName) :
                \E i \in 1..Len(res.diags) : res.diags[i] = Warn("Overwritten", v, <<>>)

\* a collision by name only: the colliding identity is not the target identity
C1_Witness ==
  /\ CreateListed
  /\ ~d.overwrite
  /\ res.diags = <<Err("AlreadyExists", Volume(ctBACKUP, nameYAML), <<>>)>>
  /\ fileGetContentType(d, TRUE).ct = ctSNIPPETS
  /\ ~UploadCalled

(***************************************************************************)
(* C2: a read of a present artifact with a file or URL source reports      *)
(* source_file.changed = true whenever the modification time, size and tag *)
(* recorded before the read are all non-empty and at least one of them     *)
(* differs from the value the read observes.                               *)
(***************************************************************************)
\* the call has reached the drift computation of a file or URL source
DriftComputed == res.op \in {"read", "create"} /\ (Called("Stat") \/ Called("Head"))

FullBaseline == res.last.md # <<>> /\ res.last.size # 0 /\ res.last.tag # <<>>

Differs ==
  \/ res.last.md # res.fresh.md
  \/ res.last.size # res.fresh.size
  \/ res.last.tag # res.fresh.tag

C2_DriftDetected ==
  (DriftComputed /\ FullBaseline /\ Differs) => d.source_file[1].changed

(***************************************************************************)
(* C3: whenever at least one of the modification time, size and tag        *)
(* recorded before a read is empty or zero, the read reports               *)
(* source_file.changed = false, whatever it observes (the read-back of a   *)
(* create, which has nothing recorded, included).                          *)
(***************************************************************************)
C3_NoBaselineNoDrift ==
  (DriftComputed /\ ~FullBaseline) => ~d.source_file[1].changed

\* a partial baseline (no tag recorded) and an observation that differs from it
C3_Witness ==
  /\ res.op = "read"
  /\ DriftComputed
  /\ res.last.md # <<>>
  /\ res.last.tag = <<>>
  /\ Differs
  /\ ~d.source_file[1].changed

(***************************************************************************)
(* C4: fileDelete on an identity the backend reports as not existing (or   *)
(* that it removes) returns no error and leaves the identity cleared.      *)
(***************************************************************************)
C4_DeleteIdempotent ==
  (res.op = "delete" /\ res.answer \in {"ok", "notexist"}) =>
    /\ res.outcome = "ok"
    /\ res.diags = <<>>
    /\ d.id = <<>>

C4_Witness ==
  /\ res.op = "delete"
  /\ res.answer = "notexist"
  /\ res.id # <<>>
  /\ res.id \notin files
  /\ res.outcome = "ok"
  /\ d.id = <<>>

(***************************************************************************)
(* C5: for a file or URL source with a non-empty expected checksum,        *)
(* fileCreate makes an upload call only if the SHA-256 of the local bytes  *)
(* matches the expected value; the comparison is made on the local file    *)
(* (for a URL, after the download into the temporary file); on a mismatch  *)
(* the call fails with the one error naming the calculated and the         *)
(* expected checksum, makes no upload call and leaves the identity unset;  *)
(* with the calculated checksum as expected value the comparison passes.   *)
(***************************************************************************)
ExpectedChecksum == d.source_file[1].checksum

\* the comparison was reached and the hash computed
ChecksumCompared == Called("Hash") /\ ~HasDiag("error", "Hash")

C5_ChecksumGate ==
  (res.op = "create" /\ Len(d.source_file) > 0 /\ ExpectedChecksum # <<>>) =>
    /\ UploadCalled => ToLower(ExpectedChecksum) = Sha256Hex(res.content)
    /\ (Called("Hash") /\ fileIsURL(d)) => "download" \in res.tmpCreated
    /\ (ChecksumCompared /\ ToLower(ExpectedChecksum) # Sha256Hex(res.content)) =>
         /\ res.diags = <<Err("ChecksumMismatch", Sha256Hex(res.content), ExpectedChecksum)>>
         /\ ~UploadCalled
         /\ d.id = <<>>
    /\ (ChecksumCompared /\ ExpectedChecksum = Sha256Hex(res.content)) =>
         ~HasDiag("error", "ChecksumMismatch")

C5_Witness ==
  /\ res.op = "create"
  /\ Len(d.source_file) > 0
  /\ fileIsURL(d)
  /\ ExpectedChecksum = sumGood
  /\ res.content = "c2"
  /\ HasDiag("error", "ChecksumMismatch")
  /\ ~UploadCalled
  /\ d.id = <<>>

(***************************************************************************)
(* C6: every temporary file fileCreate creates has been removed when it    *)
(* returns, on every exit path.                                            *)
(***************************************************************************)
C6_TempFilesReleased == res.op = "create" => res.tmpCreated \subseteq res.tmpRemoved

(***************************************************************************)
(* C7: whenever fileCreate returns an error diagnostic, no file uploaded   *)
(* by the call is left in the datastore.                                   *)
(***************************************************************************)
C7_NoOrphan ==
  (res.op = "create" /\ res.outcome = "error") =>
    (res.uploaded = <<>> \/ res.uploaded \notin files)

(***************************************************************************)
(* C8: fileRead fetches the listing on every call; if an entry has the     *)
(* identity of the resource, the identity stays and file_name and          *)
(* content_type are those of the entry; if none has, the identity is       *)
(* cleared and no error returned; and a second read of the same listing    *)
(* and the same source changes nothing.                                    *)
(***************************************************************************)
ReadListed == res.op = "read" /\ Called("List") /\ ~HasDiag("error", "ListFiles")

EntriesOf(id) == {i \in 1..Len(res.list) : res.list[i].VolumeID = id}

C8_ReadRefresh ==
  /\ (res.op = "read" /\ ~HasDiag("error", "GetClient")) => Called("List")
  /\ ReadListed =>
       /\ \A i \in EntriesOf(res.id) :
            /\ d.id = res.id
            /\ d.file_name = SubSeq(res.id, FirstSlashAfter(res.id, IndexOf(res.id, ":")) + 1,
                                    Len(res.id))
            /\ d.content_type = res.list[i].ContentType
       /\ EntriesOf(res.id) = {} => (d.id = <<>> /\ res.outcome = "ok")
       /\ fileRead(d, FALSE, [err |-> FALSE, list |-> res.list], res.obs).d = d

C8_Witness ==
  /\ ReadListed
  /\ EntriesOf(res.id) # {}
  /\ d.id = res.id
  /\ d.file_name = nameISO
  /\ d.content_type = ctISO
  /\ Called("Head")

(***************************************************************************)
(* C9: for every identity whose three parts are non-empty and contain      *)
(* neither ':' nor '/', fileParseVolumeID(v.String()) returns exactly v    *)
(* and no error.                                                           *)
(***************************************************************************)
PlainPart(p) == p # <<>> /\ ~Contains(p, ":") /\ ~Contains(p, "/")

ValidIdentity(v) ==
  PlainPart(v.datastoreID) /\ PlainPart(v.contentType) /\ PlainPart(v.fileName)

C9_RoundTrip ==
  (pstep = "roundtrip" /\ ValidIdentity(pv)) => (pout = [v |-> pv, err |-> FALSE])

C9_Witness ==
  /\ pstep = "roundtrip"
  /\ ValidIdentity(pv)
  /\ Len(pv.fileName) = MaxPart
  /\ pin = String(pv)
  /\ pout.v = pv

(***************************************************************************)
(* C10: fileParseVolumeID returns an error and the zero identity for every *)
(* string with no ':', with no '/' after the first ':', or with an empty   *)
(* part on either side of either split (so for "", "a", "a:", "a:b",       *)
(* "a:b/" and ":/x"), and no error for every other string.                 *)
(***************************************************************************)
RejectedExamples ==
  { <<>>, <<"a">>, <<"a", ":">>, <<"a", ":", "b">>, <<"a", ":", "b", "/">>,
    <<":", "/", "x">> }

C10_RejectsMalformed ==
  pstep = "parsed" =>
    /\ Malformed(pin) => pout = [v |-> ZeroVolumeID, err |-> TRUE]
    /\ ~Malformed(pin) => ~pout.err /\ String(pout.v) = pin
    /\ pin \in RejectedExamples => pout.err

C10_Witness ==
  /\ pstep = "parsed"
  /\ pin = <<"a", ":", "b", "/">>
  /\ pout.err
  /\ pout.v = ZeroVolumeID


(***************************************************************************)
(* C11: with no explicit content type, fileGetContentType gives vztmpl for *)
(* a source name ending in .tar.gz or .tar.xz whatever the version         *)
(* supports; otherwise, only when the version supports the import type,    *)
(* import for a name ending in .qcow2, .raw or .vmdk; otherwise iso for    *)
(* the extension img or iso and snippets for yaml or yml (the extension    *)
(* in any letter case); and when no rule matches it returns no content     *)
(* type and the one error asking for an explicit content type.             *)
(***************************************************************************)
\* the name the inference looks at: the path of the file source, the file
\* name of the raw source
InferredFrom ==
  IF Len(d.source_file) > 0 THEN d.source_file[1].path ELSE d.source_raw[1].file_name

EndsIn(s, sufs) == \E k \in 0..Len(s) : SubSeq(s, k + 1, Len(s)) \in sufs

TemplateName == EndsIn(InferredFrom, {sufTARGZ, sufTARXZ})

ImportName == EndsIn(InferredFrom, {sufQCOW2, sufRAW, sufVMDK})

IsoName == EndsIn(ToLower(InferredFrom), {<<".", "i", "m", "g">>, <<".", "i", "s", "o">>})

SnippetName ==
  EndsIn(ToLower(InferredFrom), {<<".", "y", "a", "m", "l">>, <<".", "y", "m", "l">>})

Inferred(ct) == pout = [nil |-> FALSE, ct |-> ct, diags |-> <<>>]

C11_Inference ==
  (/\ pstep = "contentType"
   /\ d.content_type = <<>>
   /\ Len(d.source_file) + Len(d.source_raw) > 0) =>
    IF TemplateName THEN Inferred(ctVZTMPL)
    ELSE IF pin.supportsImport /\ ImportName THEN Inferred(ctIMPORT)
    ELSE IF IsoName THEN Inferred(ctISO)
    ELSE IF SnippetName THEN Inferred(ctSNIPPETS)
    ELSE /\ pout.nil
         /\ pout.diags = <<Err("UndeterminedContentType", InferredFrom, <<>>)>>

\* a .qcow2 name on a version without the import type: no rule matches
C11_Witness ==
  /\ pstep = "contentType"
  /\ d.content_type = <<>>
  /\ Len(d.source_file) > 0
  /\ d.source_file[1].path = <<"/", "d", "/", "a">> \o sufQCOW2
  /\ ~pin.supportsImport
  /\ pout.nil
  /\ HasError(pout.diags)

(***************************************************************************)
(* C12: when the resource data carries an explicit content type (and a     *)
(* source), fileGetContentType infers nothing and returns that content     *)
(* type, without a diagnostic if it is one of the known content types and  *)
(* with an error diagnostic if it is not; in the latter case fileCreate    *)
(* returns the error and makes no upload call, and in the former the file  *)
(* it uploads carries the explicit content type.                           *)
(***************************************************************************)
\* the resource data fileCreate was called on, as far as the content type
\* is computed from it
CreateConfig == [d EXCEPT !.content_type = res.ct]

C12_ExplicitContentType ==
  (res.op = "create" /\ res.ct # <<>>) =>
    /\ \A b \in BOOLEAN :
         /\ ~fileGetContentType(CreateConfig, b).nil
         /\ fileGetContentType(CreateConfig, b).ct = res.ct
         /\ HasError(fileGetContentType(CreateConfig, b).diags) <=>
              res.ct \notin KnownContentTypes
         /\ res.ct \in KnownContentTypes => fileGetContentType(CreateConfig, b).diags = <<>>
    /\ res.ct \notin KnownContentTypes =>
         /\ res.outcome = "error"
         /\ (Called("List") /\ ~HasDiag("error", "ListFiles") /\ ~HasDiag("error", "AlreadyExists"))
              => HasDiag("error", "UnknownContentType")
         /\ ~UploadCalled
         /\ res.uploaded = <<>>
         /\ d.id = <<>>
    /\ (res.ct \in KnownContentTypes /\ res.uploaded # <<>>) =>
         res.uploaded = Volume(res.ct, TargetName)

\* an unknown content type on a source whose name would infer snippets
C12_Witness ==
  /\ res.op = "create"
  /\ res.ct = ctUnknown
  /\ InferContentType(d.source_raw[1].file_name, TRUE) = ctSNIPPETS
  /\ res.calls = <<"Version", "List">>
  /\ HasDiag("error", "UnknownContentType")
  /\ files = {}
  /\ d.id = <<>>

(***************************************************************************)
(* C13: for a raw source with resize > 0, a payload strictly shorter than  *)
(* resize is written padded on the right to exactly resize bytes, and a    *)
(* payload of resize bytes or more makes fileCreate fail with the resize   *)
(* error without any upload; the payload is never truncated; with          *)
(* resize = 0 it is written unchanged.                                     *)
(***************************************************************************)
\* fileCreate has come to the raw source: nothing before it has returned
RawReached ==
  /\ res.op = "create"
  /\ Len(d.source_raw) > 0
  /\ Called("List")
  /\ \A k \in {"ListFiles", "AlreadyExists", "NotBoth", "UnknownContentType",
               "UndeterminedContentType"} : ~HasDiag("error", k)

\* the temporary file has been written: res.data is what it holds
RawWritten == RawReached /\ res.data # <<>>

IsPrefix(p, s) == Len(p) <= Len(s) /\ SubSeq(s, 1, Len(p)) = p

C13_Resize ==
  /\ (RawWritten /\ d.source_raw[1].resize > 0
        /\ ByteLen(d.source_raw[1].data) < d.source_raw[1].resize) =>
       (ByteLen(res.data) = d.source_raw[1].resize /\ IsPrefix(d.source_raw[1].data, res.data))
  /\ (RawReached /\ d.source_raw[1].resize > 0
        /\ ByteLen(d.source_raw[1].data) >= d.source_raw[1].resize) =>
       (res.outcome = "error" /\ HasDiag("error", "Resize") /\ ~UploadCalled)
  /\ RawWritten => IsPrefix(d.source_raw[1].data, res.data)
  /\ (RawWritten /\ d.source_raw[1].resize = 0) => res.data = d.source_raw[1].data

(***************************************************************************)
(* C14: fileGetSourceFileName returns the override name whenever it is     *)
(* non-empty (source_file.file_name; for a raw source its file_name);      *)
(* otherwise, for a path beginning with http:// or https://, the final     *)
(* segment of the URL path, and an error when that segment is empty (no    *)
(* path, or a path ending in '/'); otherwise the base name of the path     *)
(* (of the empty path when a raw source has no file name); and with        *)
(* neither source the missing-argument error.                              *)
(***************************************************************************)
Resolved(name) == pout = [name |-> name, err |-> <<>>]

\* the path of the file source, empty for a raw source
ResolvedPath == IF Len(d.source_file) > 0 THEN d.source_file[1].path ELSE <<>>

OverrideName ==
  IF Len(d.source_file) > 0 THEN d.source_file[1].file_name ELSE d.source_raw[1].file_name

IsURLPath ==
  \E scheme \in {sHTTP, sHTTPS} : IsPrefix(scheme, ResolvedPath)

\* what follows scheme://host in a URL: empty, or beginning with '/'
PathOfURL ==
  LET scheme == IF IsPrefix(sHTTPS, ResolvedPath) THEN sHTTPS ELSE sHTTP
      host == SubSeq(ResolvedPath, Len(scheme) + 1, Len(ResolvedPath))
  IN  IF Contains(host, "/") THEN SubSeq(host, IndexOf(host, "/"), Len(host)) ELSE <<>>

\* s is t followed by a last segment without '/'
LastSegment(s, t) ==
  \E k \in 0..Len(t) :
    /\ s = SubSeq(t, k + 1, Len(t))
    /\ ~Contains(s, "/")
    /\ (k = 0 \/ t[k] = "/")

C14_FileName ==
  pstep = "fileName" =>
    IF Len(d.source_file) = 0 /\ Len(d.source_raw) = 0
      THEN pout.err = <<Err("MissingArgument", <<>>, <<>>)>>
    ELSE IF OverrideName # <<>> THEN Resolved(OverrideName)
    ELSE IF IsURLPath
      THEN IF PathOfURL = <<>> \/ PathOfURL[Len(PathOfURL)] = "/"
             THEN pout.err # <<>> /\ pout.name = <<>>
             ELSE pout.err = <<>> /\ pout.name # <<>> /\ LastSegment(pout.name, PathOfURL)
    ELSE /\ Resolved(Base(ResolvedPath))
         /\ (ResolvedPath # <<>> /\ ResolvedPath[Len(ResolvedPath)] # "/") =>
              LastSegment(pout.name, ResolvedPath)

\* a URL whose path ends in '/'
C14_Witness ==
  /\ pstep = "fileName"
  /\ Len(d.source_file) > 0
  /\ d.source_file[1].file_name = <<>>
  /\ d.source_file[1].path = sHTTP \o <<"h", "/", "a", "/">>
  /\ pout.err = <<Err("NoFileNameInURL", d.source_file[1].path, <<>>)>>

(***************************************************************************)
(* C15: fileUpdate makes no backend call, leaves the identity and every    *)
(* recorded attribute of the resource as they were, touches neither the    *)
(* datastore nor the temporary directory, and returns no diagnostic.       *)
(***************************************************************************)
C15_UpdateNoOp ==
  [][Update => /\ d' = d
               /\ files' = files
               /\ tempDir' = tempDir
               /\ res'.calls = <<>>
               /\ res'.diags = <<>>
               /\ res'.outcome = "ok"]_vars

\* an update of a resource whose attributes have been recorded
C15_Witness ==
  /\ res.op = "update"
  /\ d.id # <<>>
  /\ d.file_tag # <<>>
  /\ res.calls = <<>>

(***************************************************************************)
(* C16: fileParseImportID splits its argument at the first '/' into a node *)
(* and a remainder: for a non-empty node without '/' and an identity v     *)
(* whose parts are non-empty and free of ':' and '/', it returns (node, v) *)
(* for node + "/" + v.String(); it returns an error for an argument with   *)
(* no '/', with nothing before the first '/', or with a remainder that is  *)
(* no identity, and for no other; on success the Importer sets the id to   *)
(* the identity's string and node_name, datastore_id and content_type to   *)
(* the node, the datastore and the content type, and on an error it sets   *)
(* nothing.                                                                *)
(***************************************************************************)
ImportRemainder == SubSeq(pin, IndexOf(pin, "/") + 1, Len(pin))

ImportRejected ==
  \/ ~Contains(pin, "/")
  \/ pin[1] = "/"
  \/ Malformed(ImportRemainder)

ImportColon == IndexOf(ImportRemainder, ":")

C16_ImportID ==
  /\ (/\ pstep = "importParsed"
      /\ pv.node # <<>>
      /\ ~Contains(pv.node, "/")
      /\ ValidIdentity(pv)) =>
       /\ ~pout.err
       /\ pout.node = pv.node
       /\ pout.v = [datastoreID |-> pv.datastoreID, contentType |-> pv.contentType,
                    fileName |-> pv.fileName]
  /\ pstep = "importParsed" =>
       /\ pout.err <=> ImportRejected
       /\ pout.err => (pout.node = <<>> /\ pout.v = ZeroVolumeID)
  /\ pstep = "imported" =>
       IF ImportRejected THEN pout.err /\ d = [ImportBlank EXCEPT !.id = pin]
       ELSE /\ ~pout.err
            /\ d.id = ImportRemainder
            /\ d.node_name = SubSeq(pin, 1, IndexOf(pin, "/") - 1)
            /\ d.datastore_id = SubSeq(ImportRemainder, 1, ImportColon - 1)
            /\ d.content_type =
                 SubSeq(ImportRemainder, ImportColon + 1,
                        FirstSlashAfter(ImportRemainder, ImportColon) - 1)

C16_Witness ==
  /\ pstep = "imported"
  /\ pv.node = <<"n">>
  /\ ValidIdentity(pv)
  /\ Len(pv.datastoreID) = MaxPart
  /\ ~pout.err
  /\ d.id = String(pv)
  /\ d.node_name = pv.node
  /\ d.datastore_id = pv.datastoreID
  /\ d.content_type = pv.contentType

(***************************************************************************)
(* C17: whenever fileCreate returns without an error diagnostic, it has    *)
(* made exactly one upload call, the identity of the resource is non-empty *)
(* and is datastoreID:contentType/fileName, and the datastore holds that   *)
(* identity.                                                               *)
(***************************************************************************)
UploadCalls == {i \in 1..Len(res.calls) : res.calls[i] \in {"APIUpload", "StreamUpload"}}

C17_SuccessImpliesPresent ==
  (res.op = "create" /\ res.outcome = "ok") =>
    /\ Cardinality(UploadCalls) = 1
    /\ d.id # <<>>
    /\ d.id = Volume3(d.datastore_id, d.content_type, TargetName)
    /\ d.id = res.uploaded
    /\ d.id \in files

(***************************************************************************)
(* C18: when both source_file and source_raw are given, fileCreate fails   *)
(* with the 'not both' error before any I/O: it has made no backend call   *)
(* (version query, listing), no download and created no temporary file.    *)
(***************************************************************************)
BothSources == Len(d.source_file) > 0 /\ Len(d.source_raw) > 0

C18_ConflictBeforeIO ==
  (res.op = "create" /\ BothSources) =>
    /\ res.outcome = "error"
    /\ HasDiag("error", "NotBoth")
    /\ res.calls = <<>>
    /\ res.tmpCreated = {}

(***************************************************************************)
(* C19: a create that enters the upload step uses one transport, chosen by *)
(* the content type: for iso, vztmpl and import it makes the one API       *)
(* upload call and never asks for the datastore or streams; for every      *)
(* other content type it never makes the API upload call and streams at    *)
(* most once (exactly once when the datastore answers with a path); the    *)
(* request carries the content type, but 'dump' for backup, while the      *)
(* identity of a backup still carries 'backup'.                            *)
(***************************************************************************)
\* the content type fileCreate resolved
ResolvedType == fileGetContentType(CreateConfig, res.supportsImport).ct

CallsOf(call) == {i \in 1..Len(res.calls) : res.calls[i] = call}

\* the upload step was entered: its first call was made
UploadEntered == res.op = "create" /\ (Called("APIUpload") \/ Called("GetDatastore"))

C19_UploadRouting ==
  UploadEntered =>
    /\ ResolvedType \in {ctISO, ctVZTMPL, ctIMPORT} =>
         /\ Cardinality(CallsOf("APIUpload")) = 1
         /\ ~Called("GetDatastore")
         /\ ~Called("StreamUpload")
         /\ res.requestType = ResolvedType
    /\ ResolvedType \notin {ctISO, ctVZTMPL, ctIMPORT} =>
         /\ ~Called("APIUpload")
         /\ Cardinality(CallsOf("StreamUpload")) <= 1
         /\ (res.fail # "getDatastore" /\ res.dsPath = "path") =>
              Cardinality(CallsOf("StreamUpload")) = 1
         /\ Called("StreamUpload") =>
              res.requestType = (IF ResolvedType = ctBACKUP THEN ctDUMP ELSE ResolvedType)
    /\ res.uploaded # <<>> => res.uploaded = Volume(ResolvedType, TargetName)
    /\ res.outcome = "ok" => d.id = Volume(ResolvedType, TargetName)

\* a backup streamed as 'dump' and identified as 'backup'
C19_Witness ==
  /\ UploadEntered
  /\ ResolvedType = ctBACKUP
  /\ res.calls = <<"Version", "List", "CreateTemp", "GetDatastore", "StreamUpload",
                   "Version", "List">>
  /\ res.requestType = ctDUMP
  /\ res.outcome = "ok"
  /\ d.id = Volume(ctBACKUP, nameYAML)

(***************************************************************************)
(* C20: on the way to a streaming upload, a datastore that reports no path *)
(* (none, or an empty one) makes fileCreate fail without a streaming       *)
(* upload; a datastore whose content types do not include the target type  *)
(* adds a warning, the streaming upload is still made, and the create      *)
(* succeeds when nothing else fails.                                       *)
(***************************************************************************)
\* the datastore was asked and answered
DatastoreAnswered == res.op = "create" /\ Called("GetDatastore") /\ res.fail # "getDatastore"

C20_StreamingPreconditions ==
  DatastoreAnswered =>
    /\ res.dsPath \in {"nil", "empty"} =>
         /\ res.outcome = "error"
         /\ res.diags = <<Err("NoDatastorePath", <<>>, <<>>)>>
         /\ ~Called("StreamUpload")
         /\ res.uploaded = <<>>
    /\ res.dsPath = "path" =>
         /\ Called("StreamUpload")
         /\ HasDiag("warning", "UnsupportedContentType") <=> ResolvedType \notin res.dsContent
         /\ (res.fail = "none" /\ ~res.raced /\ ~res.fresh.err) => res.outcome = "ok"

\* the datastore does not list the content type: warning, upload, success
C20_Witness ==
  /\ DatastoreAnswered
  /\ res.dsPath = "path"
  /\ ResolvedType = ctSNIPPETS
  /\ res.dsContent = {ctISO}
  /\ HasDiag("warning", "UnsupportedContentType")
  /\ Called("StreamUpload")
  /\ res.outcome = "ok"
  /\ d.id = Volume(ctSNIPPETS, nameYAML)

\* ---------------------------------------------------------------------
\* C21: the checksum comparison ignores letter case: when the expected
\* checksum equals the computed SHA-256 hex digest up to letter case and
\* the comparison was reached, create reports no ChecksumMismatch.
\* file.go line 484 compares the two strings byte for byte, and "%x"
\* (line 478) prints lower-case digits only, so an upper-case expected
\* checksum of the right digest is rejected.
C21_CaseInsensitive ==
  (/\ res.op = "create"
   /\ Len(d.source_file) > 0
   /\ ExpectedChecksum # <<>>
   /\ ChecksumCompared
   /\ ToLower(ExpectedChecksum) = Sha256Hex(res.content)) =>
    ~HasDiag("error", "ChecksumMismatch")

\* ---------------------------------------------------------------------
\* the deadline of fileCreate fired while the call res records was in the
\* step that res.fail names
DeadlineFired ==
  /\ res.op = "create"
  /\ \/ res.fail = "deadlineList" /\ Called("List")
     \/ res.fail = "deadlineDownload" /\ Called("HttpGet")
     \/ res.fail = "deadlineUpload" /\ UploadCalled

\* the calls of the step that was in flight when the deadline fired
InFlightCalls ==
  IF res.fail = "deadlineList" THEN {"List"}
  ELSE IF res.fail = "deadlineDownload" THEN {"HttpGet", "CreateTemp"}
  ELSE {"APIUpload", "StreamUpload"}

\* C22: the deadline is honoured by every step of create: once it has fired
\* during the listing, the URL download or the upload, that step aborts
\* (it is the last call create makes), create returns an error and every
\* temporary file created so far is removed.
\* The download of lines 425-448 is not bound to ctx: after the deadline it
\* runs to its end and create goes on to the checksum and the upload.
C22_DeadlineHonoured ==
  DeadlineFired =>
    /\ res.outcome = "error"
    /\ res.tmpCreated \subseteq res.tmpRemoved
    /\ tempDir = {}
    /\ res.calls[Len(res.calls)] \in InFlightCalls

\* the part of C22 that the steps bound to ctx do keep: a deadline in the
\* listing or in the upload ends the call there
C22_BoundSteps ==
  (DeadlineFired /\ res.fail # "deadlineDownload") =>
    /\ res.outcome = "error"
    /\ res.tmpCreated \subseteq res.tmpRemoved
    /\ res.calls[Len(res.calls)] \in InFlightCalls

\* ---------------------------------------------------------------------
\* the read res records looked at a local source path that does not exist
AbsentSourceRead ==
  /\ res.op = "read"
  /\ Len(d.source_file) > 0
  /\ ~fileIsURL(d)
  /\ Called("Stat")
  /\ res.obs.kind = "notexist"

\* C23: a local source absent at read time is "unknown", not an error:
\* readFile returns an empty modification time, size zero, an empty tag and
\* no error; fileRead then returns no error, the resource keeps its
\* identity, and the recorded modification date, size and tag are the ones
\* recorded before the read.
C23_AbsentSourceUnknown ==
  AbsentSourceRead =>
    /\ readFile(res.obs) = [md |-> <<>>, size |-> 0, tag |-> <<>>, err |-> FALSE]
    /\ res.fresh = readFile(res.obs)
    /\ res.outcome = "ok"
    /\ ~HasError(res.diags)
    /\ d.id = res.id
    /\ d.id # <<>>
    /\ Recorded(d) = res.last

\* an absent source read over a full recorded baseline
C23_Witness ==
  /\ AbsentSourceRead
  /\ res.last.md # <<>>
  /\ res.last.size # 0
  /\ res.last.tag # <<>>
  /\ Recorded(d) = res.last

\* ---------------------------------------------------------------------
\* C24: a raw payload is never drift-checked: a read of a resource that has
\* no source_file block (a raw payload only) makes no stat and no HEAD
\* request and leaves the recorded modification date, size and tag and the
\* (absent) source_file block with its changed flag as they were; of the
\* attributes it changes file_name and content_type alone, which a read
\* that fails at no call takes from the entry of the listing (the identity
\* is cleared when no entry matches, and otherwise kept).
C24_RawNotDriftChecked ==
  [][(Read /\ Len(d.source_file) = 0 /\ Len(d.source_raw) > 0) =>
       /\ \A i \in 1..Len(res'.calls) : res'.calls[i] \notin {"Stat", "Head"}
       /\ Recorded(d') = Recorded(d)
       /\ d'.source_file = <<>>
       /\ d' = [d EXCEPT !.file_name = d'.file_name,
                         !.content_type = d'.content_type,
                         !.id = d'.id]
       /\ d'.id \in {d.id, <<>>}
       /\ \A i \in 1..Len(res'.list) :
            (res'.outcome = "ok" /\ res'.list[i].VolumeID = d.id) =>
              /\ d'.id = d.id
              /\ d'.file_name = fileParseVolumeID(d.id).v.fileName
              /\ d'.content_type = res'.list[i].ContentType
       /\ (d'.id = d.id /\ res'.outcome = "ok") =>
            \E i \in 1..Len(res'.list) : res'.list[i].VolumeID = d.id]_vars

\* a read of a raw-payload resource that found its entry in the listing
C24_Witness ==
  /\ ReadListed
  /\ Len(d.source_file) = 0
  /\ Len(d.source_raw) > 0
  /\ d.id # <<>>
  /\ EntriesOf(d.id) # {}
  /\ d.file_name = fileParseVolumeID(d.id).v.fileName
  /\ res.calls = <<"List">>

\* ---------------------------------------------------------------------
\* the configurable attributes a change of which the update path applies
InPlaceAttrs == {"timeout_upload", "overwrite"}

\* C25, as claimed: timeout_upload is the only configurable attribute whose
\* change does not force recreation: the framework decides for a
\* replacement unless timeout_upload alone differs, and reaches the update
\* path with no other attribute changed, overwrite included.
\* The schema of overwrite (lines 225-230) has no ForceNew either.
C25_OnlyTimeoutInPlace ==
  /\ pstep = "planned" => (pin.requiresNew <=> pin.changed # {"timeout_upload"})
  /\ pstep = "updated" => pin.changed = {"timeout_upload"}

\* C25, amended: timeout_upload and overwrite are the only configurable
\* attributes whose change does not force recreation. A change that
\* includes content_type, datastore_id, node_name, file_mode or a source
\* block is decided as a replacement and never reaches the update path: it
\* starts with the delete call. The update path is reached with changes of
\* timeout_upload and overwrite only; it makes no call, returns no
\* diagnostic, keeps the identity, the datastore and every other attribute,
\* and the resource data takes the new values of the two.
C25_NoInPlaceUpdate ==
  /\ pstep # "present" =>
       /\ pin.changed # {}
       /\ pin.requiresNew <=> ~(pin.changed \subseteq InPlaceAttrs)
  /\ pstep = "updated" =>
       /\ pin.changed \subseteq InPlaceAttrs
       /\ pout.calls = <<>>
       /\ pout.diags = <<>>
       /\ files = pin.files
       /\ \A a \in DOMAIN d : d[a] = IF a \in pin.changed THEN pin.desired[a]
                                                         ELSE pin.before[a]
  /\ pstep \in {"destroyed", "failed", "recreated"} =>
       /\ ~(pin.changed \subseteq InPlaceAttrs)
       /\ pout.calls # <<>>
       /\ pout.calls[1] = "Delete"
  /\ pstep = "destroyed" => d.id = <<>> /\ pin.before.id \notin files
  /\ pstep = "failed" => d = pin.before /\ files = pin.files

\* a change of overwrite and timeout_upload together went through the
\* update path
C25_Witness ==
  /\ pstep = "updated"
  /\ pin.changed = InPlaceAttrs
  /\ d.overwrite # pin.before.overwrite
  /\ d.timeout_upload # pin.before.timeout_upload
  /\ d.id = pin.before.id
  /\ d.id \in files

\* ---------------------------------------------------------------------
\* C26: a failed delete keeps the object tracked: when the backend delete
\* call fails with an error other than "resource does not exist",
\* fileDelete returns that error and the identity is the one from before
\* the call; the identity is cleared only after a delete that succeeded or
\* that was answered "does not exist" (a client that cannot be obtained
\* makes no delete call and clears nothing either).
C26_DeleteFailureKeepsIdentity ==
  res.op = "delete" =>
    /\ res.answer = "error" =>
         /\ res.outcome = "error"
         /\ res.diags = <<Err("DeleteFile", res.id, <<>>)>>
         /\ res.calls = <<"Delete">>
         /\ d.id = res.id
         /\ d.id # <<>>
    /\ d.id = <<>> => (res.answer \in {"ok", "notexist"} /\ Called("Delete"))
    /\ d.id # <<>> => (d.id = res.id /\ res.outcome = "error")

\* the backend failed to delete a file that it still holds
C26_Witness ==
  /\ res.op = "delete"
  /\ res.answer = "error"
  /\ res.outcome = "error"
  /\ d.id = res.id
  /\ d.id \in files

====
